---------------------------- MODULE Spec2Model ----------------------------
(***************************************************************************)
(* Message-intake and escalation-decision pipeline of the customer-support *)
(* backend: AgentRunner.process_message (src/src/agent/runner.py) and      *)
(* WhatsAppAgentRunner.process_message                                     *)
(* (src/src/agent/whatsapp_agent_runner.py), with the skills they call     *)
(* (quick_answer.py, escalation_decision.py, sentiment_analysis.py) and    *)
(* the store, generator and transports they use.                           *)
(*                                                                         *)
(* A Python str is a sequence of one-character strings; a character        *)
(* outside the Basic Multilingual Plane is written "U+<code point>".       *)
(* Enumerated values (channel, ticket status, program position) are TLA+   *)
(* strings.                                                                *)
(***************************************************************************)
EXTENDS Integers, Sequences, FiniteSets, TLC

(***************************************************************************)
(* Characters and str operations                                           *)
(***************************************************************************)
UpperLetters ==
    <<"A","B","C","D","E","F","G","H","I","J","K","L","M",
      "N","O","P","Q","R","S","T","U","V","W","X","Y","Z">>

LowerLetters ==
    <<"a","b","c","d","e","f","g","h","i","j","k","l","m",
      "n","o","p","q","r","s","t","u","v","w","x","y","z">>

Digits == {"0","1","2","3","4","5","6","7","8","9"}

Range(s) == {s[i] : i \in DOMAIN s}

\* unit repeated n times
Repeat(unit, n) == [i \in 1..(n * Len(unit)) |-> unit[((i - 1) % Len(unit)) + 1]]

\* str.lower() on one character
LowerChar(c) ==
    IF \E i \in DOMAIN UpperLetters : UpperLetters[i] = c
    THEN LowerLetters[CHOOSE i \in DOMAIN UpperLetters : UpperLetters[i] = c]
    ELSE c

\* str.lower()
Lower(s) == [i \in DOMAIN s |-> LowerChar(s[i])]

\* str.isalnum() on one character
IsAlnum(c) == c \in Range(UpperLetters) \cup Range(LowerLetters) \cup Digits

\* the regex class \w
IsWordChar(c) == IsAlnum(c) \/ c = "_"

\* sub occurs in s at index i (1-based)
OccursAt(sub, s, i) ==
    /\ i >= 1
    /\ i + Len(sub) - 1 <= Len(s)
    /\ \A j \in 1..Len(sub) : s[i + j - 1] = sub[j]

\* the positions at which sub occurs in s
Occurrences(sub, s) == {i \in 1..(Len(s) - Len(sub) + 1) : OccursAt(sub, s, i)}

\* Python's  sub in s
Contains(sub, s) == Occurrences(sub, s) # {}

\* Python's  s.find(sub), 1-based; 0 when sub does not occur
Find(sub, s) ==
    IF Contains(sub, s)
    THEN CHOOSE i \in Occurrences(sub, s) : \A k \in Occurrences(sub, s) : i <= k
    ELSE 0

StartsWith(s, prefix) == OccursAt(prefix, s, 1)

\* Python's  s[:n]
Slice(s, n) == SubSeq(s, 1, IF n < Len(s) THEN n ELSE Len(s))

(***************************************************************************)
(* Python values that are not str                                          *)
(***************************************************************************)
\* None, where a str is expected
None == <<"None">>

\* the object a call of the  async def  fn returns when it is not awaited:
\* none of the body has run
CallWithoutAwait(fn) == <<"coroutine object " \o fn>>

IsCoroutine(v) ==
    v \in {CallWithoutAwait("handle_greeting"), CallWithoutAwait("handle_thanks")}

\* bool(v) for v a str, None or a coroutine object
Truthy(v) == IsCoroutine(v) \/ (v # None /\ v # << >>)

(***************************************************************************)
(* skills/escalation_decision.py                                           *)
(***************************************************************************)
HARD_ESCALATION_KEYWORDS ==
    << <<"l","a","w","y","e","r">>,
       <<"l","e","g","a","l">>,
       <<"s","u","e">>,
       <<"a","t","t","o","r","n","e","y">>,
       <<"l","a","w","s","u","i","t">>,
       <<"r","e","f","u","n","d">>,
       <<"c","a","n","c","e","l","l","a","t","i","o","n">>,
       <<"c","a","n","c","e","l">>,
       <<"c","h","a","r","g","e","b","a","c","k">>,
       <<"g","d","p","r">>,
       <<"d","a","t","a"," ","b","r","e","a","c","h">>,
       <<"c","o","m","p","l","i","a","n","c","e">> >>

HUMAN_REQUEST_KEYWORDS ==
    << <<"h","u","m","a","n">>,
       <<"a","g","e","n","t">>,
       <<"r","e","a","l"," ","p","e","r","s","o","n">>,
       <<"m","a","n","a","g","e","r">>,
       <<"r","e","p","r","e","s","e","n","t","a","t","i","v","e">> >>

\* re.search(rf"\b{kw}\b", message_lower): kw begins and ends with a word
\* character, so \b holds where the neighbour is no word character
WholeWordSearch(kw, s) ==
    \E i \in Occurrences(kw, s) :
        /\ (i = 1 \/ ~IsWordChar(s[i - 1]))
        /\ (i + Len(kw) - 1 = Len(s) \/ ~IsWordChar(s[i + Len(kw)]))

\* the first element of the list kws that satisfies P (the for loop returns
\* at the first hit); 0 when none does
FirstIndex(kws, P(_)) ==
    IF \E k \in DOMAIN kws : P(kws[k])
    THEN CHOOSE k \in DOMAIN kws : P(kws[k]) /\ \A j \in 1..(k - 1) : ~P(kws[j])
    ELSE 0

\* sentiment scores are hundredths: 0.2 is 20, 0.3 is 30, 0.5 is 50
HostileThreshold == 20

NegativeThreshold == 30

EscalationDecision(should_escalate, reason, urgency) ==
    [should_escalate |-> should_escalate, reason |-> reason, urgency |-> urgency]

\* decide_escalation with the sentiment thresholds tried before the
\* human-request keywords
decide_escalation_SentimentFirst(message, sentiment_score) ==
    LET message_lower == Lower(message)
        HardHit(kw) == Contains(kw, message_lower)
        hard == FirstIndex(HARD_ESCALATION_KEYWORDS, HardHit)
        HumanHit(kw) == WholeWordSearch(kw, message_lower)
        human == FirstIndex(HUMAN_REQUEST_KEYWORDS, HumanHit)
    IN  IF hard # 0
        THEN EscalationDecision(TRUE,
                 <<"k","e","y","w","o","r","d","_","d","e","t","e","c","t","e","d",":">>
                     \o HARD_ESCALATION_KEYWORDS[hard],
                 "immediate")
        ELSE IF sentiment_score < HostileThreshold
        THEN EscalationDecision(TRUE,
                 <<"h","o","s","t","i","l","e","_","s","e","n","t","i","m","e","n","t">>,
                 "immediate")
        ELSE IF sentiment_score < NegativeThreshold
        THEN EscalationDecision(TRUE,
                 <<"n","e","g","a","t","i","v","e","_","s","e","n","t","i","m","e","n","t">>,
                 "high")
        ELSE IF human # 0
        THEN EscalationDecision(TRUE,
                 <<"c","u","s","t","o","m","e","r","_","r","e","q","u","e","s","t","e","d",
                   "_","h","u","m","a","n">>,
                 "high")
        ELSE EscalationDecision(FALSE, << >>, "normal")

\* decide_escalation with <= in place of < at both thresholds
decide_escalation_InclusiveThresholds(message, sentiment_score) ==
    LET message_lower == Lower(message)
        HardHit(kw) == Contains(kw, message_lower)
        hard == FirstIndex(HARD_ESCALATION_KEYWORDS, HardHit)
        HumanHit(kw) == WholeWordSearch(kw, message_lower)
        human == FirstIndex(HUMAN_REQUEST_KEYWORDS, HumanHit)
    IN  IF hard # 0
        THEN EscalationDecision(TRUE,
                 <<"k","e","y","w","o","r","d","_","d","e","t","e","c","t","e","d",":">>
                     \o HARD_ESCALATION_KEYWORDS[hard],
                 "immediate")
        ELSE IF human # 0
        THEN EscalationDecision(TRUE,
                 <<"c","u","s","t","o","m","e","r","_","r","e","q","u","e","s","t","e","d",
                   "_","h","u","m","a","n">>,
                 "high")
        ELSE IF sentiment_score <= HostileThreshold
        THEN EscalationDecision(TRUE,
                 <<"h","o","s","t","i","l","e","_","s","e","n","t","i","m","e","n","t">>,
                 "immediate")
        ELSE IF sentiment_score <= NegativeThreshold
        THEN EscalationDecision(TRUE,
                 <<"n","e","g","a","t","i","v","e","_","s","e","n","t","i","m","e","n","t">>,
                 "high")
        ELSE EscalationDecision(FALSE, << >>, "normal")

decide_escalation(message, sentiment_score) ==
    LET message_lower == Lower(message)
        HardHit(kw) == Contains(kw, message_lower)
        hard == FirstIndex(HARD_ESCALATION_KEYWORDS, HardHit)
        HumanHit(kw) == WholeWordSearch(kw, message_lower)
        human == FirstIndex(HUMAN_REQUEST_KEYWORDS, HumanHit)
    IN  IF hard # 0
        THEN EscalationDecision(TRUE,
                 <<"k","e","y","w","o","r","d","_","d","e","t","e","c","t","e","d",":">>
                     \o HARD_ESCALATION_KEYWORDS[hard],
                 "immediate")
        ELSE IF human # 0
        THEN EscalationDecision(TRUE,
                 <<"c","u","s","t","o","m","e","r","_","r","e","q","u","e","s","t","e","d",
                   "_","h","u","m","a","n">>,
                 "high")
        ELSE IF sentiment_score < HostileThreshold
        THEN EscalationDecision(TRUE,
                 <<"h","o","s","t","i","l","e","_","s","e","n","t","i","m","e","n","t">>,
                 "immediate")
        ELSE IF sentiment_score < NegativeThreshold
        THEN EscalationDecision(TRUE,
                 <<"n","e","g","a","t","i","v","e","_","s","e","n","t","i","m","e","n","t">>,
                 "high")
        ELSE EscalationDecision(FALSE, << >>, "normal")

(***************************************************************************)
(* skills/quick_answer.py                                                  *)
(***************************************************************************)
QUICK_ANSWERS ==
       (* "reset_password": *) <<"r","e","s","e","t","_","p","a","s","s","w","o","r","d">> :>
       [ keywords |->
           << <<"r","e","s","e","t"," ","p","a","s","s","w","o","r","d">>,
              <<"f","o","r","g","o","t"," ","p","a","s","s","w","o","r","d">>,
              <<"c","a","n","'","t"," ","l","o","g","i","n">>,
              <<"c","a","n","n","o","t"," ","l","o","g","i","n">>,
              <<"l","o","c","k","e","d"," ","o","u","t">>,
              <<"p","a","s","s","w","o","r","d"," ","r","e","s","e","t">>,
              <<"f","o","r","g","o","t"," ","m","y"," ","p","a","s","s","w","o","r","d">>,
              <<"f","o","r","g","e","t"," ","p","a","s","s","w","o","r","d">> >>,
         (* "Hi! To reset your password: /  / 1. Go to the login page / 2. Click "Forgot Password" / 3. Enter your email / 4. Check your inbox for reset link / 5. Click the link and create a new password /  / The reset link expires in 24 hours. Need more help?" *)
         response |->
           <<"H","i","!"," ","T","o"," ","r","e","s","e","t"," ","y","o","u","r"," ","p","a","s","s","w","o",
             "r","d",":","\n","\n","1","."," ","G","o"," ","t","o"," ","t","h","e"," ","l","o","g","i","n",
             " ","p","a","g","e","\n","2","."," ","C","l","i","c","k"," ","\"","F","o","r","g","o","t"," ",
             "P","a","s","s","w","o","r","d","\"","\n","3","."," ","E","n","t","e","r"," ","y","o","u","r",
             " ","e","m","a","i","l","\n","4","."," ","C","h","e","c","k"," ","y","o","u","r"," ","i","n",
             "b","o","x"," ","f","o","r"," ","r","e","s","e","t"," ","l","i","n","k","\n","5","."," ","C",
             "l","i","c","k"," ","t","h","e"," ","l","i","n","k"," ","a","n","d"," ","c","r","e","a","t","e",
             " ","a"," ","n","e","w"," ","p","a","s","s","w","o","r","d","\n","\n","T","h","e"," ","r","e",
             "s","e","t"," ","l","i","n","k"," ","e","x","p","i","r","e","s"," ","i","n"," ","2","4"," ","h",
             "o","u","r","s","."," ","N","e","e","d"," ","m","o","r","e"," ","h","e","l","p","?">>,
         category |-> <<"a","c","c","o","u","n","t">>,
         (* no "escalate" key: intent_data.get("escalate", False) *)
         escalate |-> FALSE ]
    @@ (* "account_setup": *) <<"a","c","c","o","u","n","t","_","s","e","t","u","p">> :>
       [ keywords |->
           << <<"g","e","t"," ","s","t","a","r","t","e","d">>,
              <<"s","e","t","u","p"," ","a","c","c","o","u","n","t">>,
              <<"c","r","e","a","t","e"," ","a","c","c","o","u","n","t">>,
              <<"n","e","w"," ","u","s","e","r">>,
              <<"h","o","w"," ","t","o"," ","s","t","a","r","t">>,
              <<"s","i","g","n"," ","u","p">>,
              <<"r","e","g","i","s","t","e","r">>,
              <<"n","e","w"," ","a","c","c","o","u","n","t">> >>,
         (* "Welcome! Here's how to get started: /  / 1. Visit our signup page / 2. Create account with work email / 3. Set up your workspace / 4. Invite team members / 5. Create your first project /  / Need a walkthrough of features?" *)
         response |->
           <<"W","e","l","c","o","m","e","!"," ","H","e","r","e","'","s"," ","h","o","w"," ","t","o"," ","g",
             "e","t"," ","s","t","a","r","t","e","d",":","\n","\n","1","."," ","V","i","s","i","t"," ","o",
             "u","r"," ","s","i","g","n","u","p"," ","p","a","g","e","\n","2","."," ","C","r","e","a","t",
             "e"," ","a","c","c","o","u","n","t"," ","w","i","t","h"," ","w","o","r","k"," ","e","m","a","i",
             "l","\n","3","."," ","S","e","t"," ","u","p"," ","y","o","u","r"," ","w","o","r","k","s","p",
             "a","c","e","\n","4","."," ","I","n","v","i","t","e"," ","t","e","a","m"," ","m","e","m","b",
             "e","r","s","\n","5","."," ","C","r","e","a","t","e"," ","y","o","u","r"," ","f","i","r","s",
             "t"," ","p","r","o","j","e","c","t","\n","\n","N","e","e","d"," ","a"," ","w","a","l","k","t",
             "h","r","o","u","g","h"," ","o","f"," ","f","e","a","t","u","r","e","s","?">>,
         category |-> <<"o","n","b","o","a","r","d","i","n","g">>,
         (* no "escalate" key: intent_data.get("escalate", False) *)
         escalate |-> FALSE ]
    @@ (* "pricing": *) <<"p","r","i","c","i","n","g">> :>
       [ keywords |->
           << <<"p","r","i","c","e">>,
              <<"c","o","s","t">>,
              <<"p","r","i","c","i","n","g">>,
              <<"h","o","w"," ","m","u","c","h">>,
              <<"u","p","g","r","a","d","e">>,
              <<"p","l","a","n">>,
              <<"s","u","b","s","c","r","i","p","t","i","o","n">>,
              <<"b","i","l","l","i","n","g">>,
              <<"p","r","i","c","e","s">>,
              <<"c","o","s","t","s">>,
              <<"p","r","i","c","i","n","g"," ","p","l","a","n">> >>,
         (* "We offer 3 plans: /  / - Free: Up to 5 team members / - Pro: Up to 50 members, advanced features / - Enterprise: Unlimited members, priority support /  / 14-day free trial. No credit card needed. /  / Want me to connect you with sales for custom pricing?" *)
         response |->
           <<"W","e"," ","o","f","f","e","r"," ","3"," ","p","l","a","n","s",":","\n","\n","-"," ","F","r",
             "e","e",":"," ","U","p"," ","t","o"," ","5"," ","t","e","a","m"," ","m","e","m","b","e","r","s",
             "\n","-"," ","P","r","o",":"," ","U","p"," ","t","o"," ","5","0"," ","m","e","m","b","e","r",
             "s",","," ","a","d","v","a","n","c","e","d"," ","f","e","a","t","u","r","e","s","\n","-"," ",
             "E","n","t","e","r","p","r","i","s","e",":"," ","U","n","l","i","m","i","t","e","d"," ","m","e",
             "m","b","e","r","s",","," ","p","r","i","o","r","i","t","y"," ","s","u","p","p","o","r","t",
             "\n","\n","1","4","-","d","a","y"," ","f","r","e","e"," ","t","r","i","a","l","."," ","N","o",
             " ","c","r","e","d","i","t"," ","c","a","r","d"," ","n","e","e","d","e","d",".","\n","\n","W",
             "a","n","t"," ","m","e"," ","t","o"," ","c","o","n","n","e","c","t"," ","y","o","u"," ","w","i",
             "t","h"," ","s","a","l","e","s"," ","f","o","r"," ","c","u","s","t","o","m"," ","p","r","i","c",
             "i","n","g","?">>,
         category |-> <<"s","a","l","e","s">>,
         escalate |-> TRUE ]
    @@ (* "refund": *) <<"r","e","f","u","n","d">> :>
       [ keywords |->
           << <<"r","e","f","u","n","d">>,
              <<"m","o","n","e","y"," ","b","a","c","k">>,
              <<"c","a","n","c","e","l"," ","s","u","b","s","c","r","i","p","t","i","o","n">>,
              <<"b","i","l","l","i","n","g"," ","i","s","s","u","e">>,
              <<"c","h","a","r","g","e","b","a","c","k">>,
              <<"u","n","s","u","b","s","c","r","i","b">>,
              <<"c","a","n","c","e","l">>,
              <<"s","u","b","s","c","r","i","p","t","i","o","n"," ","c","a","n","c","e","l">>,
              <<"u","n","s","u","b","s","c","r","i","b","e">>,
              <<"c","a","n","c","e","l"," ","m","y"," ","s","u","b","s","c","r","i","p","t","i","o","n">> >>,
         (* "I understand you have a billing concern. /  / Let me connect you with our billing specialist who can review your account and assist with refunds. /  / A billing agent will contact you within 2 hours. Is there a specific issue I should note?" *)
         response |->
           <<"I"," ","u","n","d","e","r","s","t","a","n","d"," ","y","o","u"," ","h","a","v","e"," ","a"," ",
             "b","i","l","l","i","n","g"," ","c","o","n","c","e","r","n",".","\n","\n","L","e","t"," ","m",
             "e"," ","c","o","n","n","e","c","t"," ","y","o","u"," ","w","i","t","h"," ","o","u","r"," ","b",
             "i","l","l","i","n","g"," ","s","p","e","c","i","a","l","i","s","t"," ","w","h","o"," ","c","a",
             "n"," ","r","e","v","i","e","w"," ","y","o","u","r"," ","a","c","c","o","u","n","t"," ","a","n",
             "d"," ","a","s","s","i","s","t"," ","w","i","t","h"," ","r","e","f","u","n","d","s",".","\n",
             "\n","A"," ","b","i","l","l","i","n","g"," ","a","g","e","n","t"," ","w","i","l","l"," ","c",
             "o","n","t","a","c","t"," ","y","o","u"," ","w","i","t","h","i","n"," ","2"," ","h","o","u","r",
             "s","."," ","I","s"," ","t","h","e","r","e"," ","a"," ","s","p","e","c","i","f","i","c"," ","i",
             "s","s","u","e"," ","I"," ","s","h","o","u","l","d"," ","n","o","t","e","?">>,
         category |-> <<"b","i","l","l","i","n","g">>,
         escalate |-> TRUE ]
    @@ (* "api_key": *) <<"a","p","i","_","k","e","y">> :>
       [ keywords |->
           << <<"a","p","i"," ","k","e","y">>,
              <<"a","p","i"," ","t","o","k","e","n">>,
              <<"a","p","i"," ","a","c","c","e","s","s">>,
              <<"i","n","t","e","g","r","a","t","i","o","n">>,
              <<"w","e","b","h","o","o","k">>,
              <<"a","p","i"," ","d","o","c","s">>,
              <<"r","e","s","t"," ","a","p","i">>,
              <<"a","p","i"," ","d","o","c","u","m","e","n","t","a","t","i","o","n">>,
              <<"d","e","v","e","l","o","p","e","r"," ","a","p","i">> >>,
         (* "To find your API key: /  / 1. Log in to dashboard / 2. Go to Settings → API / 3. Click "Generate New Key" / 4. Store it securely (can't view again!) /  / API docs available at our developer portal. /  / Need help with specific integration?" *)
         response |->
           <<"T","o"," ","f","i","n","d"," ","y","o","u","r"," ","A","P","I"," ","k","e","y",":","\n","\n",
             "1","."," ","L","o","g"," ","i","n"," ","t","o"," ","d","a","s","h","b","o","a","r","d","\n",
             "2","."," ","G","o"," ","t","o"," ","S","e","t","t","i","n","g","s"," ","→"," ","A","P","I",
             "\n","3","."," ","C","l","i","c","k"," ","\"","G","e","n","e","r","a","t","e"," ","N","e","w",
             " ","K","e","y","\"","\n","4","."," ","S","t","o","r","e"," ","i","t"," ","s","e","c","u","r",
             "e","l","y"," ","(","c","a","n","'","t"," ","v","i","e","w"," ","a","g","a","i","n","!",")",
             "\n","\n","A","P","I"," ","d","o","c","s"," ","a","v","a","i","l","a","b","l","e"," ","a","t",
             " ","o","u","r"," ","d","e","v","e","l","o","p","e","r"," ","p","o","r","t","a","l",".","\n",
             "\n","N","e","e","d"," ","h","e","l","p"," ","w","i","t","h"," ","s","p","e","c","i","f","i",
             "c"," ","i","n","t","e","g","r","a","t","i","o","n","?">>,
         category |-> <<"t","e","c","h","n","i","c","a","l">>,
         (* no "escalate" key: intent_data.get("escalate", False) *)
         escalate |-> FALSE ]
    @@ (* "downtime": *) <<"d","o","w","n","t","i","m","e">> :>
       [ keywords |->
           << <<"d","o","w","n">>,
              <<"n","o","t"," ","w","o","r","k","i","n","g">>,
              <<"e","r","r","o","r">>,
              <<"s","e","r","v","e","r"," ","d","o","w","n">>,
              <<"c","a","n","'","t"," ","a","c","c","e","s","s">>,
              <<"o","u","t","a","g","e">>,
              <<"b","r","o","k","e","n">>,
              <<"b","u","g">>,
              <<"s","e","r","v","i","c","e"," ","d","o","w","n">>,
              <<"s","e","r","v","i","c","e"," ","i","s"," ","d","o","w","n">>,
              <<"e","r","r","o","r","s">>,
              <<"g","e","t","t","i","n","g"," ","e","r","r","o","r","s">>,
              <<"b","u","g"," ","i","n">> >>,
         (* "Sorry you're experiencing issues! /  / Current system status: All systems operational /  / Try these: / 1. Clear browser cache / 2. Try incognito mode / 3. Check internet connection / 4. Try different browser /  / Still not working? I'll escalate to tech support." *)
         response |->
           <<"S","o","r","r","y"," ","y","o","u","'","r","e"," ","e","x","p","e","r","i","e","n","c","i","n",
             "g"," ","i","s","s","u","e","s","!","\n","\n","C","u","r","r","e","n","t"," ","s","y","s","t",
             "e","m"," ","s","t","a","t","u","s",":"," ","A","l","l"," ","s","y","s","t","e","m","s"," ","o",
             "p","e","r","a","t","i","o","n","a","l","\n","\n","T","r","y"," ","t","h","e","s","e",":","\n",
             "1","."," ","C","l","e","a","r"," ","b","r","o","w","s","e","r"," ","c","a","c","h","e","\n",
             "2","."," ","T","r","y"," ","i","n","c","o","g","n","i","t","o"," ","m","o","d","e","\n","3",
             "."," ","C","h","e","c","k"," ","i","n","t","e","r","n","e","t"," ","c","o","n","n","e","c","t",
             "i","o","n","\n","4","."," ","T","r","y"," ","d","i","f","f","e","r","e","n","t"," ","b","r",
             "o","w","s","e","r","\n","\n","S","t","i","l","l"," ","n","o","t"," ","w","o","r","k","i","n",
             "g","?"," ","I","'","l","l"," ","e","s","c","a","l","a","t","e"," ","t","o"," ","t","e","c","h",
             " ","s","u","p","p","o","r","t",".">>,
         category |-> <<"t","e","c","h","n","i","c","a","l">>,
         (* no "escalate" key: intent_data.get("escalate", False) *)
         escalate |-> FALSE ]
    @@ (* "feature_request": *) <<"f","e","a","t","u","r","e","_","r","e","q","u","e","s","t">> :>
       [ keywords |->
           << <<"f","e","a","t","u","r","e">>,
              <<"s","u","g","g","e","s","t","i","o","n">>,
              <<"w","o","u","l","d"," ","b","e"," ","n","i","c","e">>,
              <<"c","a","n"," ","y","o","u"," ","a","d","d">>,
              <<"r","e","q","u","e","s","t">>,
              <<"i","d","e","a">>,
              <<"i","m","p","r","o","v","e">> >>,
         (* "Great idea! I'd love to pass this to our product team. /  / Can you share: / - What problem this solves? / - How you'd use it? / - Any examples? /  / Your feedback helps us improve!" *)
         response |->
           <<"G","r","e","a","t"," ","i","d","e","a","!"," ","I","'","d"," ","l","o","v","e"," ","t","o"," ",
             "p","a","s","s"," ","t","h","i","s"," ","t","o"," ","o","u","r"," ","p","r","o","d","u","c","t",
             " ","t","e","a","m",".","\n","\n","C","a","n"," ","y","o","u"," ","s","h","a","r","e",":","\n",
             "-"," ","W","h","a","t"," ","p","r","o","b","l","e","m"," ","t","h","i","s"," ","s","o","l","v",
             "e","s","?","\n","-"," ","H","o","w"," ","y","o","u","'","d"," ","u","s","e"," ","i","t","?",
             "\n","-"," ","A","n","y"," ","e","x","a","m","p","l","e","s","?","\n","\n","Y","o","u","r"," ",
             "f","e","e","d","b","a","c","k"," ","h","e","l","p","s"," ","u","s"," ","i","m","p","r","o","v",
             "e","!">>,
         category |-> <<"f","e","e","d","b","a","c","k">>,
         (* no "escalate" key: intent_data.get("escalate", False) *)
         escalate |-> FALSE ]
    @@ (* "contact_support": *) <<"c","o","n","t","a","c","t","_","s","u","p","p","o","r","t">> :>
       [ keywords |->
           << <<"t","a","l","k"," ","t","o"," ","h","u","m","a","n">>,
              <<"s","p","e","a","k"," ","t","o"," ","a","g","e","n","t">>,
              <<"r","e","a","l"," ","p","e","r","s","o","n">>,
              <<"c","u","s","t","o","m","e","r"," ","s","e","r","v","i","c","e">>,
              <<"s","u","p","p","o","r","t"," ","t","e","a","m">>,
              <<"h","e","l","p">>,
              <<"h","u","m","a","n"," ","s","u","p","p","o","r","t">>,
              <<"t","a","l","k"," ","t","o"," ","a"," ","h","u","m","a","n">>,
              <<"h","u","m","a","n"," ","a","g","e","n","t">> >>,
         (* "I'll connect you with a human specialist right away. /  / They'll review your conversation and contact you shortly. /  / Is there a specific issue I should note for them?" *)
         response |->
           <<"I","'","l","l"," ","c","o","n","n","e","c","t"," ","y","o","u"," ","w","i","t","h"," ","a"," ",
             "h","u","m","a","n"," ","s","p","e","c","i","a","l","i","s","t"," ","r","i","g","h","t"," ","a",
             "w","a","y",".","\n","\n","T","h","e","y","'","l","l"," ","r","e","v","i","e","w"," ","y","o",
             "u","r"," ","c","o","n","v","e","r","s","a","t","i","o","n"," ","a","n","d"," ","c","o","n","t",
             "a","c","t"," ","y","o","u"," ","s","h","o","r","t","l","y",".","\n","\n","I","s"," ","t","h",
             "e","r","e"," ","a"," ","s","p","e","c","i","f","i","c"," ","i","s","s","u","e"," ","I"," ","s",
             "h","o","u","l","d"," ","n","o","t","e"," ","f","o","r"," ","t","h","e","m","?">>,
         category |-> <<"s","u","p","p","o","r","t">>,
         escalate |-> TRUE ]
    @@ (* "shipping": *) <<"s","h","i","p","p","i","n","g">> :>
       [ keywords |->
           << <<"s","h","i","p","p","i","n","g">>,
              <<"d","e","l","i","v","e","r","y">>,
              <<"w","h","e","n"," ","w","i","l","l">>,
              <<"t","r","a","c","k"," ","o","r","d","e","r">>,
              <<"s","h","i","p","m","e","n","t">>,
              <<"w","h","e","r","e"," ","i","s"," ","m","y"," ","o","r","d","e","r">> >>,
         (* "To check your order status: /  / 1. Log in to your account / 2. Go to Orders / 3. Click on order number / 4. View tracking info /  / Standard: 3-5 business days / Express: 1-2 business days /  / Need help tracking?" *)
         response |->
           <<"T","o"," ","c","h","e","c","k"," ","y","o","u","r"," ","o","r","d","e","r"," ","s","t","a","t",
             "u","s",":","\n","\n","1","."," ","L","o","g"," ","i","n"," ","t","o"," ","y","o","u","r"," ",
             "a","c","c","o","u","n","t","\n","2","."," ","G","o"," ","t","o"," ","O","r","d","e","r","s",
             "\n","3","."," ","C","l","i","c","k"," ","o","n"," ","o","r","d","e","r"," ","n","u","m","b",
             "e","r","\n","4","."," ","V","i","e","w"," ","t","r","a","c","k","i","n","g"," ","i","n","f",
             "o","\n","\n","S","t","a","n","d","a","r","d",":"," ","3","-","5"," ","b","u","s","i","n","e",
             "s","s"," ","d","a","y","s","\n","E","x","p","r","e","s","s",":"," ","1","-","2"," ","b","u",
             "s","i","n","e","s","s"," ","d","a","y","s","\n","\n","N","e","e","d"," ","h","e","l","p"," ",
             "t","r","a","c","k","i","n","g","?">>,
         category |-> <<"o","r","d","e","r","s">>,
         (* no "escalate" key: intent_data.get("escalate", False) *)
         escalate |-> FALSE ]
    @@ (* "integration": *) <<"i","n","t","e","g","r","a","t","i","o","n">> :>
       [ keywords |->
           << <<"i","n","t","e","g","r","a","t","e">>,
              <<"i","n","t","e","g","r","a","t","i","o","n">>,
              <<"c","o","n","n","e","c","t">>,
              <<"s","l","a","c","k">>,
              <<"z","a","p","i","e","r">>,
              <<"w","e","b","h","o","o","k">>,
              <<"t","e","a","m","s">>,
              <<"g","i","t","h","u","b">>,
              <<"w","e","b","h","o","o","k"," ","c","o","n","f","i","g","u","r","a","t","i","o","n">>,
              <<"s","l","a","c","k"," ","i","n","t","e","g","r","a","t","i","o","n">> >>,
         (* "We support these integrations: /  / - Slack/Teams: Notifications / - Zapier: 1000+ apps / - GitHub/GitLab: Dev workflows / - API: Custom integrations /  / Which integration? I can guide you." *)
         response |->
           <<"W","e"," ","s","u","p","p","o","r","t"," ","t","h","e","s","e"," ","i","n","t","e","g","r","a",
             "t","i","o","n","s",":","\n","\n","-"," ","S","l","a","c","k","/","T","e","a","m","s",":"," ",
             "N","o","t","i","f","i","c","a","t","i","o","n","s","\n","-"," ","Z","a","p","i","e","r",":",
             " ","1","0","0","0","+"," ","a","p","p","s","\n","-"," ","G","i","t","H","u","b","/","G","i",
             "t","L","a","b",":"," ","D","e","v"," ","w","o","r","k","f","l","o","w","s","\n","-"," ","A",
             "P","I",":"," ","C","u","s","t","o","m"," ","i","n","t","e","g","r","a","t","i","o","n","s",
             "\n","\n","W","h","i","c","h"," ","i","n","t","e","g","r","a","t","i","o","n","?"," ","I"," ",
             "c","a","n"," ","g","u","i","d","e"," ","y","o","u",".">>,
         category |-> <<"t","e","c","h","n","i","c","a","l">>,
         (* no "escalate" key: intent_data.get("escalate", False) *)
         escalate |-> FALSE ]
    @@ (* "export_data": *) <<"e","x","p","o","r","t","_","d","a","t","a">> :>
       [ keywords |->
           << <<"e","x","p","o","r","t">>,
              <<"d","o","w","n","l","o","a","d"," ","d","a","t","a">>,
              <<"b","a","c","k","u","p">>,
              <<"c","s","v">>,
              <<"j","s","o","n">>,
              <<"d","a","t","a"," ","e","x","p","o","r","t">>,
              <<"d","o","w","n","l","o","a","d"," ","c","s","v">>,
              <<"c","s","v"," ","e","x","p","o","r","t">> >>,
         (* "To export your data: /  / 1. Go to Settings / 2. Click "Data & Privacy" / 3. Select "Export Data" / 4. Choose format (CSV/JSON) / 5. Download will start /  / Large exports may take a few minutes. /  / Need help with specific data?" *)
         response |->
           <<"T","o"," ","e","x","p","o","r","t"," ","y","o","u","r"," ","d","a","t","a",":","\n","\n","1",
             "."," ","G","o"," ","t","o"," ","S","e","t","t","i","n","g","s","\n","2","."," ","C","l","i",
             "c","k"," ","\"","D","a","t","a"," ","&"," ","P","r","i","v","a","c","y","\"","\n","3","."," ",
             "S","e","l","e","c","t"," ","\"","E","x","p","o","r","t"," ","D","a","t","a","\"","\n","4",".",
             " ","C","h","o","o","s","e"," ","f","o","r","m","a","t"," ","(","C","S","V","/","J","S","O","N",
             ")","\n","5","."," ","D","o","w","n","l","o","a","d"," ","w","i","l","l"," ","s","t","a","r",
             "t","\n","\n","L","a","r","g","e"," ","e","x","p","o","r","t","s"," ","m","a","y"," ","t","a",
             "k","e"," ","a"," ","f","e","w"," ","m","i","n","u","t","e","s",".","\n","\n","N","e","e","d",
             " ","h","e","l","p"," ","w","i","t","h"," ","s","p","e","c","i","f","i","c"," ","d","a","t","a",
             "?">>,
         category |-> <<"a","c","c","o","u","n","t">>,
         (* no "escalate" key: intent_data.get("escalate", False) *)
         escalate |-> FALSE ]
    @@ (* "team_invite": *) <<"t","e","a","m","_","i","n","v","i","t","e">> :>
       [ keywords |->
           << <<"i","n","v","i","t","e">>,
              <<"a","d","d"," ","m","e","m","b","e","r">>,
              <<"a","d","d"," ","u","s","e","r">>,
              <<"t","e","a","m"," ","m","e","m","b","e","r">>,
              <<"c","o","l","l","a","b","o","r","a","t","o","r">>,
              <<"i","n","v","i","t","e"," ","t","e","a","m">> >>,
         (* "To invite team members: /  / 1. Go to Settings → Team / 2. Click "Invite Members" / 3. Enter email addresses / 4. Assign roles (Admin/Member/Viewer) / 5. Send invitations /  / They'll receive an email with signup link. /  / Need help with permissions?" *)
         response |->
           <<"T","o"," ","i","n","v","i","t","e"," ","t","e","a","m"," ","m","e","m","b","e","r","s",":",
             "\n","\n","1","."," ","G","o"," ","t","o"," ","S","e","t","t","i","n","g","s"," ","→"," ","T",
             "e","a","m","\n","2","."," ","C","l","i","c","k"," ","\"","I","n","v","i","t","e"," ","M","e",
             "m","b","e","r","s","\"","\n","3","."," ","E","n","t","e","r"," ","e","m","a","i","l"," ","a",
             "d","d","r","e","s","s","e","s","\n","4","."," ","A","s","s","i","g","n"," ","r","o","l","e",
             "s"," ","(","A","d","m","i","n","/","M","e","m","b","e","r","/","V","i","e","w","e","r",")",
             "\n","5","."," ","S","e","n","d"," ","i","n","v","i","t","a","t","i","o","n","s","\n","\n","T",
             "h","e","y","'","l","l"," ","r","e","c","e","i","v","e"," ","a","n"," ","e","m","a","i","l"," ",
             "w","i","t","h"," ","s","i","g","n","u","p"," ","l","i","n","k",".","\n","\n","N","e","e","d",
             " ","h","e","l","p"," ","w","i","t","h"," ","p","e","r","m","i","s","s","i","o","n","s","?">>,
         category |-> <<"a","c","c","o","u","n","t">>,
         (* no "escalate" key: intent_data.get("escalate", False) *)
         escalate |-> FALSE ]
    @@ (* "two_factor": *) <<"t","w","o","_","f","a","c","t","o","r">> :>
       [ keywords |->
           << <<"2","f","a">>,
              <<"t","w","o"," ","f","a","c","t","o","r">>,
              <<"a","u","t","h","e","n","t","i","c","a","t","i","o","n">>,
              <<"s","e","c","u","r","i","t","y">>,
              <<"e","n","a","b","l","e"," ","2","f","a">> >>,
         (* "To enable 2FA: /  / 1. Go to Settings → Security / 2. Click "Enable Two-Factor Auth" / 3. Scan QR code with authenticator app / 4. Enter the 6-digit code / 5. Save backup codes /  / Supported apps: Google Authenticator, Authy, Microsoft Authenticator. /  / Need help setting up?" *)
         response |->
           <<"T","o"," ","e","n","a","b","l","e"," ","2","F","A",":","\n","\n","1","."," ","G","o"," ","t",
             "o"," ","S","e","t","t","i","n","g","s"," ","→"," ","S","e","c","u","r","i","t","y","\n","2",
             "."," ","C","l","i","c","k"," ","\"","E","n","a","b","l","e"," ","T","w","o","-","F","a","c",
             "t","o","r"," ","A","u","t","h","\"","\n","3","."," ","S","c","a","n"," ","Q","R"," ","c","o",
             "d","e"," ","w","i","t","h"," ","a","u","t","h","e","n","t","i","c","a","t","o","r"," ","a","p",
             "p","\n","4","."," ","E","n","t","e","r"," ","t","h","e"," ","6","-","d","i","g","i","t"," ",
             "c","o","d","e","\n","5","."," ","S","a","v","e"," ","b","a","c","k","u","p"," ","c","o","d",
             "e","s","\n","\n","S","u","p","p","o","r","t","e","d"," ","a","p","p","s",":"," ","G","o","o",
             "g","l","e"," ","A","u","t","h","e","n","t","i","c","a","t","o","r",","," ","A","u","t","h","y",
             ","," ","M","i","c","r","o","s","o","f","t"," ","A","u","t","h","e","n","t","i","c","a","t","o",
             "r",".","\n","\n","N","e","e","d"," ","h","e","l","p"," ","s","e","t","t","i","n","g"," ","u",
             "p","?">>,
         category |-> <<"s","e","c","u","r","i","t","y">>,
         (* no "escalate" key: intent_data.get("escalate", False) *)
         escalate |-> FALSE ]
    @@ (* "trial": *) <<"t","r","i","a","l">> :>
       [ keywords |->
           << <<"t","r","i","a","l">>,
              <<"f","r","e","e"," ","t","r","i","a","l">>,
              <<"t","r","i","a","l"," ","p","e","r","i","o","d">>,
              <<"t","e","s","t">>,
              <<"t","r","y"," ","b","e","f","o","r","e">> >>,
         (* "We offer a 14-day free trial of our Pro plan: /  / - No credit card required / - All Pro features included / - Up to 50 team members / - Cancel anytime /  / Want me to help you start a trial?" *)
         response |->
           <<"W","e"," ","o","f","f","e","r"," ","a"," ","1","4","-","d","a","y"," ","f","r","e","e"," ","t",
             "r","i","a","l"," ","o","f"," ","o","u","r"," ","P","r","o"," ","p","l","a","n",":","\n","\n",
             "-"," ","N","o"," ","c","r","e","d","i","t"," ","c","a","r","d"," ","r","e","q","u","i","r","e",
             "d","\n","-"," ","A","l","l"," ","P","r","o"," ","f","e","a","t","u","r","e","s"," ","i","n",
             "c","l","u","d","e","d","\n","-"," ","U","p"," ","t","o"," ","5","0"," ","t","e","a","m"," ",
             "m","e","m","b","e","r","s","\n","-"," ","C","a","n","c","e","l"," ","a","n","y","t","i","m",
             "e","\n","\n","W","a","n","t"," ","m","e"," ","t","o"," ","h","e","l","p"," ","y","o","u"," ",
             "s","t","a","r","t"," ","a"," ","t","r","i","a","l","?">>,
         category |-> <<"s","a","l","e","s">>,
         (* no "escalate" key: intent_data.get("escalate", False) *)
         escalate |-> FALSE ]
    @@ (* "demo": *) <<"d","e","m","o">> :>
       [ keywords |->
           << <<"d","e","m","o">>,
              <<"d","e","m","o"," ","r","e","q","u","e","s","t">>,
              <<"s","h","o","w"," ","m","e">>,
              <<"w","a","l","k","t","h","r","o","u","g","h">>,
              <<"t","u","t","o","r","i","a","l">> >>,
         (* "We offer live demos: /  / - Group onboarding (Pro plans) / - Dedicated training (Enterprise) / - Self-service docs (all plans) /  / What would you like to see? I can guide you to the right resources." *)
         response |->
           <<"W","e"," ","o","f","f","e","r"," ","l","i","v","e"," ","d","e","m","o","s",":","\n","\n","-",
             " ","G","r","o","u","p"," ","o","n","b","o","a","r","d","i","n","g"," ","(","P","r","o"," ","p",
             "l","a","n","s",")","\n","-"," ","D","e","d","i","c","a","t","e","d"," ","t","r","a","i","n",
             "i","n","g"," ","(","E","n","t","e","r","p","r","i","s","e",")","\n","-"," ","S","e","l","f",
             "-","s","e","r","v","i","c","e"," ","d","o","c","s"," ","(","a","l","l"," ","p","l","a","n","s",
             ")","\n","\n","W","h","a","t"," ","w","o","u","l","d"," ","y","o","u"," ","l","i","k","e"," ",
             "t","o"," ","s","e","e","?"," ","I"," ","c","a","n"," ","g","u","i","d","e"," ","y","o","u"," ",
             "t","o"," ","t","h","e"," ","r","i","g","h","t"," ","r","e","s","o","u","r","c","e","s",".">>,
         category |-> <<"s","a","l","e","s">>,
         (* no "escalate" key: intent_data.get("escalate", False) *)
         escalate |-> FALSE ]

\* INTENT_PATTERNS, in dict order.  All four are compiled with
\* re.IGNORECASE: "start" is ^(a|b|..), "any" is (a|b|..), "whole" is
\* ^(a|b|..)$
INTENT_PATTERNS ==
    << [intent |-> <<"g","r","e","e","t","i","n","g">>, anchor |-> "start",
        alternatives |->
          << <<"h","i">>, <<"h","e","l","l","o">>, <<"h","e","y">>,
             <<"g","o","o","d"," ","m","o","r","n","i","n","g">>,
             <<"g","o","o","d"," ","a","f","t","e","r","n","o","o","n">>,
             <<"g","o","o","d"," ","e","v","e","n","i","n","g">>,
             <<"y","o">>, <<"s","u","p">> >>],
       [intent |-> <<"t","h","a","n","k","s">>, anchor |-> "any",
        alternatives |->
          << <<"t","h","a","n","k">>, <<"t","h","a","n","k","s">>, <<"t","h","x">>,
             <<"a","p","p","r","e","c","i","a","t","e">> >>],
       [intent |-> <<"y","e","s">>, anchor |-> "whole",
        alternatives |->
          << <<"y","e","s">>, <<"y","e","a","h">>, <<"y","e","p">>, <<"s","u","r","e">>,
             <<"o","k">>, <<"o","k","a","y">>, <<"y","u","p">> >>],
       [intent |-> <<"n","o">>, anchor |-> "whole",
        alternatives |->
          << <<"n","o">>, <<"n","o","p","e">>, <<"n","a","h">>, <<"d","o","n","'","t">>,
             <<"d","o","e","s","n","'","t">>, <<"n","o","t">> >> ] >>

\* pattern.search(text) is not None.  With re.IGNORECASE and lower-case
\* alternatives the search sees the text lower-cased; $ also matches before
\* a final newline
PatternSearch(pattern, text) ==
    LET s == Lower(text)
    IN  \E k \in DOMAIN pattern.alternatives :
            LET alt == pattern.alternatives[k]
            IN  CASE pattern.anchor = "start" -> StartsWith(s, alt)
                  [] pattern.anchor = "any"   -> Contains(alt, s)
                  [] pattern.anchor = "whole" -> s = alt \/ s = alt \o <<"\n">>

\* priority_order with api_key moved before integration
priority_order_ApiKeyFirst ==
    << <<"r","e","s","e","t","_","p","a","s","s","w","o","r","d">>,
       <<"a","c","c","o","u","n","t","_","s","e","t","u","p">>,
       <<"r","e","f","u","n","d">>,
       <<"p","r","i","c","i","n","g">>,
       <<"a","p","i","_","k","e","y">>,
       <<"i","n","t","e","g","r","a","t","i","o","n">>,
       <<"d","o","w","n","t","i","m","e">>,
       <<"f","e","a","t","u","r","e","_","r","e","q","u","e","s","t">>,
       <<"c","o","n","t","a","c","t","_","s","u","p","p","o","r","t">>,
       <<"s","h","i","p","p","i","n","g">>,
       <<"e","x","p","o","r","t","_","d","a","t","a">>,
       <<"t","e","a","m","_","i","n","v","i","t","e">>,
       <<"t","w","o","_","f","a","c","t","o","r">>,
       <<"t","r","i","a","l">>,
       <<"d","e","m","o">> >>

\* priority_order of classify_intent
priority_order ==
    << <<"r","e","s","e","t","_","p","a","s","s","w","o","r","d">>,
       <<"a","c","c","o","u","n","t","_","s","e","t","u","p">>,
       <<"r","e","f","u","n","d">>,
       <<"p","r","i","c","i","n","g">>,
       <<"i","n","t","e","g","r","a","t","i","o","n">>,
       <<"a","p","i","_","k","e","y">>,
       <<"d","o","w","n","t","i","m","e">>,
       <<"f","e","a","t","u","r","e","_","r","e","q","u","e","s","t">>,
       <<"c","o","n","t","a","c","t","_","s","u","p","p","o","r","t">>,
       <<"s","h","i","p","p","i","n","g">>,
       <<"e","x","p","o","r","t","_","d","a","t","a">>,
       <<"t","e","a","m","_","i","n","v","i","t","e">>,
       <<"t","w","o","_","f","a","c","t","o","r">>,
       <<"t","r","i","a","l">>,
       <<"d","e","m","o">> >>

\* the keywords exempt from the length gate
ShortKeywords == {<<"d","o","w","n">>, <<"c","s","v">>, <<"2","f","a">>}

\* keywords longer than this pass the length gate
MinKeywordLen == 3

\* the body of the inner loop of classify_intent: keyword accepted in
\* message_lower.  Only the first occurrence (str.find) is examined
KeywordMatches(keyword, message_lower) ==
    LET keyword_lower == Lower(keyword)
        idx == Find(keyword_lower, message_lower)
        before_ok == idx = 1 \/ ~IsAlnum(message_lower[idx - 1])
        after_ok == \/ idx - 1 + Len(keyword) >= Len(message_lower)
                    \/ ~IsAlnum(message_lower[idx + Len(keyword)])
    IN  /\ Contains(keyword_lower, message_lower)
        /\ (Len(keyword) > MinKeywordLen \/ keyword \in ShortKeywords)
        /\ idx >= 1
        /\ before_ok
        /\ after_ok

\* classify_intent with the keyword intents tried before the structural patterns
classify_intent_KeywordsFirst(message) ==
    LET message_lower == Lower(message)
        PatternHit(p) == PatternSearch(p, message_lower)
        structural == FirstIndex(INTENT_PATTERNS, PatternHit)
        IntentHit(intent_name) ==
            /\ intent_name \in DOMAIN QUICK_ANSWERS
            /\ \E k \in DOMAIN QUICK_ANSWERS[intent_name].keywords :
                   KeywordMatches(QUICK_ANSWERS[intent_name].keywords[k], message_lower)
        keyword == FirstIndex(priority_order, IntentHit)
    IN  IF keyword # 0 THEN priority_order[keyword]
        ELSE IF structural # 0 THEN INTENT_PATTERNS[structural].intent
        ELSE None

classify_intent(message) ==
    LET message_lower == Lower(message)
        PatternHit(p) == PatternSearch(p, message_lower)
        structural == FirstIndex(INTENT_PATTERNS, PatternHit)
        IntentHit(intent_name) ==
            /\ intent_name \in DOMAIN QUICK_ANSWERS
            /\ \E k \in DOMAIN QUICK_ANSWERS[intent_name].keywords :
                   KeywordMatches(QUICK_ANSWERS[intent_name].keywords[k], message_lower)
        keyword == FirstIndex(priority_order, IntentHit)
    IN  IF structural # 0 THEN INTENT_PATTERNS[structural].intent
        ELSE IF keyword # 0 THEN priority_order[keyword]
        ELSE None

\* the value get_quick_answer returns when nothing matched
NoQuickAnswer == [none |-> TRUE]

StructuralIntents ==
    {<<"g","r","e","e","t","i","n","g">>, <<"t","h","a","n","k","s">>,
     <<"y","e","s">>, <<"n","o">>}

get_quick_answer(message) ==
    LET intent == classify_intent(message)
    IN  IF ~Truthy(intent) \/ intent \notin DOMAIN QUICK_ANSWERS THEN NoQuickAnswer
        ELSE IF intent \in StructuralIntents THEN NoQuickAnswer
        ELSE [intent |-> intent,
              response |-> QUICK_ANSWERS[intent].response,
              category |-> QUICK_ANSWERS[intent].category,
              escalate |-> QUICK_ANSWERS[intent].escalate,
              source |-> <<"q","u","i","c","k","_","a","n","s","w","e","r">>]

\* the body of handle_greeting: what awaiting the call gives
handle_greeting(message) ==
    IF PatternSearch(INTENT_PATTERNS[1], message)
    THEN \* "Hello! (waving hand) I'm your AI support assistant. / / What can I help you with today?"
         <<"H","e","l","l","o","!"," ","U+1F44B"," ","I","'","m"," ","y","o","u","r"," ","A","I"," ","s",
           "u","p","p","o","r","t"," ","a","s","s","i","s","t","a","n","t",".","\n","\n","W","h","a","t",
           " ","c","a","n"," ","I"," ","h","e","l","p"," ","y","o","u"," ","w","i","t","h"," ","t","o","d",
           "a","y","?">>
    ELSE None

\* the body of handle_thanks: what awaiting the call gives
handle_thanks(message) ==
    IF PatternSearch(INTENT_PATTERNS[2], message)
    THEN \* "You're welcome! (smiling face) / / Is there anything else I can help you with?"
         <<"Y","o","u","'","r","e"," ","w","e","l","c","o","m","e","!"," ","U+1F60A","\n","\n","I","s"," ",
           "t","h","e","r","e"," ","a","n","y","t","h","i","n","g"," ","e","l","s","e"," ","I"," ","c","a",
           "n"," ","h","e","l","p"," ","y","o","u"," ","w","i","t","h","?">>
    ELSE None

(***************************************************************************)
(* agent/formatters.py                                                     *)
(***************************************************************************)
\* str.isspace() on one character
IsSpace(c) == c \in {" ", "\n", "\t", "\r"}

\* the whitespace position of s nearest to its middle
MiddleSpace(s) ==
    LET spaces == {i \in DOMAIN s : IsSpace(s[i])}
        mid == (Len(s) + 1) \div 2
        Distance(i) == IF i >= mid THEN i - mid ELSE mid - i
    IN  CHOOSE i \in spaces :
            \A j \in spaces : Distance(i) < Distance(j) \/ (Distance(i) = Distance(j) /\ i <= j)

RECURSIVE Split(_)
\* str.split(): the maximal runs of non-whitespace characters, left to right
\* (the text is halved at a whitespace character, which belongs to no word)
Split(s) ==
    IF s = << >> THEN << >>
    ELSE IF \A i \in DOMAIN s : ~IsSpace(s[i]) THEN <<s>>
    ELSE LET i == MiddleSpace(s)
         IN  Split(SubSeq(s, 1, i - 1)) \o Split(SubSeq(s, i + 1, Len(s)))

RECURSIVE Join(_, _)
\* sep.join(words)
Join(sep, words) ==
    IF words = << >> THEN << >>
    ELSE IF Len(words) = 1 THEN words[1]
    ELSE LET half == Len(words) \div 2
         IN  Join(sep, SubSeq(words, 1, half)) \o sep
                 \o Join(sep, SubSeq(words, half + 1, Len(words)))

\* str.strip()
Strip(s) ==
    IF \A i \in DOMAIN s : IsSpace(s[i]) THEN << >>
    ELSE LET first == CHOOSE i \in DOMAIN s :
                          ~IsSpace(s[i]) /\ \A j \in 1..(i - 1) : IsSpace(s[j])
             last == CHOOSE i \in DOMAIN s :
                         ~IsSpace(s[i]) /\ \A j \in (i + 1)..Len(s) : IsSpace(s[j])
         IN  SubSeq(s, first, last)

\* truncate_to_words with the ellipsis joined as a word of its own
truncate_to_words_SeparateEllipsis(text, max_words) ==
    LET words == Split(text)
    IN  IF Len(words) <= max_words THEN text
        ELSE Join(<<" ">>, SubSeq(words, 1, max_words) \o <<(<<".", ".", ".">>)>>)

truncate_to_words(text, max_words) ==
    LET words == Split(text)
    IN  IF Len(words) <= max_words THEN text
        ELSE Join(<<" ">>, SubSeq(words, 1, max_words)) \o <<".", ".", ".">>

\* s.rsplit(' ', 1)[0]
RSplitFirst(s) ==
    IF \E i \in DOMAIN s : s[i] = " "
    THEN SubSeq(s, 1, (CHOOSE i \in DOMAIN s :
                           s[i] = " " /\ \A j \in (i + 1)..Len(s) : s[j] # " ") - 1)
    ELSE s

\* the WhatsApp character limit
WhatsAppCharLimit == 300

\* format_for_channel that also cuts a text of exactly the limit
format_for_channel_CutsAtLimit(content, channel, ticket_id) ==
    IF channel = "email"
    THEN \* "Dear Customer, / / Thank you for reaching out to Qirat Saeed AI Support. / / "
         <<"D","e","a","r"," ","C","u","s","t","o","m","e","r",",","\n","\n","T","h","a","n","k"," ","y",
           "o","u"," ","f","o","r"," ","r","e","a","c","h","i","n","g"," ","o","u","t"," ","t","o"," ","Q",
           "i","r","a","t"," ","S","a","e","e","d"," ","A","I"," ","S","u","p","p","o","r","t",".","\n",
           "\n">>
         \o content
         \* " / / Best regards, / Qirat Saeed AI Support Team / --- / Ticket: "
         \o <<"\n","\n","B","e","s","t"," ","r","e","g","a","r","d","s",",","\n","Q","i","r","a","t"," ","S",
              "a","e","e","d"," ","A","I"," ","S","u","p","p","o","r","t"," ","T","e","a","m","\n","-","-",
              "-","\n","T","i","c","k","e","t",":"," ">>
         \o ticket_id
    ELSE IF channel = "whatsapp"
    THEN LET truncated == Slice(content, WhatsAppCharLimit)
         IN  IF Len(content) >= WhatsAppCharLimit
             THEN RSplitFirst(truncated) \o <<".", ".", ".">>
             ELSE truncated
    ELSE \* " / / --- / Need more help? Reply or contact support."
         content \o
         <<"\n","\n","-","-","-","\n","N","e","e","d"," ","m","o","r","e"," ","h","e","l","p","?"," ","R",
           "e","p","l","y"," ","o","r"," ","c","o","n","t","a","c","t"," ","s","u","p","p","o","r","t",".">>

format_for_channel(content, channel, ticket_id) ==
    IF channel = "email"
    THEN \* "Dear Customer, / / Thank you for reaching out to Qirat Saeed AI Support. / / "
         <<"D","e","a","r"," ","C","u","s","t","o","m","e","r",",","\n","\n","T","h","a","n","k"," ","y",
           "o","u"," ","f","o","r"," ","r","e","a","c","h","i","n","g"," ","o","u","t"," ","t","o"," ","Q",
           "i","r","a","t"," ","S","a","e","e","d"," ","A","I"," ","S","u","p","p","o","r","t",".","\n",
           "\n">>
         \o content
         \* " / / Best regards, / Qirat Saeed AI Support Team / --- / Ticket: "
         \o <<"\n","\n","B","e","s","t"," ","r","e","g","a","r","d","s",",","\n","Q","i","r","a","t"," ","S",
              "a","e","e","d"," ","A","I"," ","S","u","p","p","o","r","t"," ","T","e","a","m","\n","-","-",
              "-","\n","T","i","c","k","e","t",":"," ">>
         \o ticket_id
    ELSE IF channel = "whatsapp"
    THEN LET truncated == Slice(content, WhatsAppCharLimit)
         IN  IF Len(content) > WhatsAppCharLimit
             THEN RSplitFirst(truncated) \o <<".", ".", ".">>
             ELSE truncated
    ELSE \* " / / --- / Need more help? Reply or contact support."
         content \o
         <<"\n","\n","-","-","-","\n","N","e","e","d"," ","m","o","r","e"," ","h","e","l","p","?"," ","R",
           "e","p","l","y"," ","o","r"," ","c","o","n","t","a","c","t"," ","s","u","p","p","o","r","t",".">>

(***************************************************************************)
(* agent/runner.py and agent/whatsapp_agent_runner.py: the pure parts      *)
(***************************************************************************)
\* _get_escalation_response of the runner in use
GetEscalationResponse(runner, channel) ==
    IF runner = "agent" /\ channel = "email"
    THEN \* "Your inquiry requires specialized assistance. A human agent will
         \*  respond to your email within 2 hours."
         <<"Y","o","u","r"," ","i","n","q","u","i","r","y"," ","r","e","q","u","i","r","e","s"," ","s","p",
           "e","c","i","a","l","i","z","e","d"," ","a","s","s","i","s","t","a","n","c","e","."," ","A"," ",
           "h","u","m","a","n"," ","a","g","e","n","t"," ","w","i","l","l"," ","r","e","s","p","o","n","d",
           " ","t","o"," ","y","o","u","r"," ","e","m","a","i","l"," ","w","i","t","h","i","n"," ","2"," ",
           "h","o","u","r","s",".">>
    ELSE \* "I'm connecting you to a human specialist. They'll review your case
         \*  and respond promptly."
         <<"I","'","m"," ","c","o","n","n","e","c","t","i","n","g"," ","y","o","u"," ","t","o"," ","a"," ",
           "h","u","m","a","n"," ","s","p","e","c","i","a","l","i","s","t","."," ","T","h","e","y","'","l",
           "l"," ","r","e","v","i","e","w"," ","y","o","u","r"," ","c","a","s","e"," ","a","n","d"," ","r",
           "e","s","p","o","n","d"," ","p","r","o","m","p","t","l","y",".">>

\* the text process_message returns from its  except Exception  handler
ErrorFallbackText(runner) ==
    IF runner = "agent"
    THEN \* "An error occurred. Escalating to human support."
         <<"A","n"," ","e","r","r","o","r"," ","o","c","c","u","r","r","e","d","."," ","E","s","c","a","l",
           "a","t","i","n","g"," ","t","o"," ","h","u","m","a","n"," ","s","u","p","p","o","r","t",".">>
    ELSE \* "I apologize, but I'm having trouble. Let me connect you to a human agent."
         <<"I"," ","a","p","o","l","o","g","i","z","e",","," ","b","u","t"," ","I","'","m"," ","h","a","v",
           "i","n","g"," ","t","r","o","u","b","l","e","."," ","L","e","t"," ","m","e"," ","c","o","n","n",
           "e","c","t"," ","y","o","u"," ","t","o"," ","a"," ","h","u","m","a","n"," ","a","g","e","n","t",
           ".">>

\* the text _generate_response returns from its own  except Exception
GenerationFailureText(runner) ==
    IF runner = "agent"
    THEN \* "I apologize, but I'm having trouble generating a response. Let me
         \*  connect you to a human agent."
         <<"I"," ","a","p","o","l","o","g","i","z","e",","," ","b","u","t"," ","I","'","m"," ","h","a","v",
           "i","n","g"," ","t","r","o","u","b","l","e"," ","g","e","n","e","r","a","t","i","n","g"," ","a",
           " ","r","e","s","p","o","n","s","e","."," ","L","e","t"," ","m","e"," ","c","o","n","n","e","c",
           "t"," ","y","o","u"," ","t","o"," ","a"," ","h","u","m","a","n"," ","a","g","e","n","t",".">>
    ELSE \* "I apologize, but I'm having trouble. Let me connect you to a human agent."
         <<"I"," ","a","p","o","l","o","g","i","z","e",","," ","b","u","t"," ","I","'","m"," ","h","a","v",
           "i","n","g"," ","t","r","o","u","b","l","e","."," ","L","e","t"," ","m","e"," ","c","o","n","n",
           "e","c","t"," ","y","o","u"," ","t","o"," ","a"," ","h","u","m","a","n"," ","a","g","e","n","t",
           ".">>

\* the word caps _generate_response applies after generation
EmailWordCap == 500

WebFormWordCap == 300

WhatsAppWordCap == 50

\* what generate_content_async gives when it raises
GeneratorRaises == <<"raises">>

\* _generate_response that returns the stripped text as the generator gave it
GenerateResponse_NoCap(runner, channel, generated) ==
    IF generated = GeneratorRaises THEN GenerationFailureText(runner)
    ELSE Strip(generated)

\* _generate_response: generated is the text the model returned, or
\* GeneratorRaises when generate_content_async raised (or .text did)
GenerateResponse(runner, channel, generated) ==
    IF generated = GeneratorRaises THEN GenerationFailureText(runner)
    ELSE LET text == Strip(generated)
         IN  IF runner = "whatsapp" THEN truncate_to_words(text, WhatsAppWordCap)
             ELSE IF channel = "web_form" THEN truncate_to_words(text, WebFormWordCap)
             ELSE IF channel = "email" THEN truncate_to_words(text, EmailWordCap)
             ELSE text

\* the resolution note _escalate_ticket writes: f"Escalation reason: {reason}"
EscalationNote(reason) ==
    <<"E","s","c","a","l","a","t","i","o","n"," ","r","e","a","s","o","n",":"," ">> \o reason

\* "agent_error"
AgentErrorReason ==
    <<"a","g","e","n","t","_","e","r","r","o","r">>

\* f"quick_answer_{quick_answer['intent']}"
QuickAnswerReason(intent) ==
    <<"q","u","i","c","k","_","a","n","s","w","e","r","_">> \o intent

(***************************************************************************)
(* Inbound messages                                                        *)
(***************************************************************************)
\* "hi"
Msg_hi ==
    <<"h","i">>
\* "thanks a lot"
Msg_thanks ==
    <<"t","h","a","n","k","s"," ","a"," ","l","o","t">>
\* "I want a refund"
Msg_refund ==
    <<"I"," ","w","a","n","t"," ","a"," ","r","e","f","u","n","d">>
\* "how much does it cost"
Msg_pricing ==
    <<"h","o","w"," ","m","u","c","h"," ","d","o","e","s"," ","i","t"," ","c","o","s","t">>
\* "I will sue you"
Msg_sue ==
    <<"I"," ","w","i","l","l"," ","s","u","e"," ","y","o","u">>
\* "talk to a human"
Msg_human ==
    <<"t","a","l","k"," ","t","o"," ","a"," ","h","u","m","a","n">>
\* "I need a manager"
Msg_manager ==
    <<"I"," ","n","e","e","d"," ","a"," ","m","a","n","a","g","e","r">>
\* "How do I invite team members?"
Msg_invite ==
    <<"H","o","w"," ","d","o"," ","I"," ","i","n","v","i","t","e"," ","t","e","a","m"," ","m","e","m",
      "b","e","r","s","?">>
\* "where are my reports"
Msg_reports ==
    <<"w","h","e","r","e"," ","a","r","e"," ","m","y"," ","r","e","p","o","r","t","s">>
\* "this is a costume"
Msg_costume ==
    <<"t","h","i","s"," ","i","s"," ","a"," ","c","o","s","t","u","m","e">>
\* "an issue with my login"
Msg_issue ==
    <<"a","n"," ","i","s","s","u","e"," ","w","i","t","h"," ","m","y"," ","l","o","g","i","n">>
\* "hello I want a refund"
Msg_hello_refund ==
    <<"h","e","l","l","o"," ","I"," ","w","a","n","t"," ","a"," ","r","e","f","u","n","d">>

\* "Refund or a human lawyer"
Msg_refund_lawyer ==
    <<"R","e","f","u","n","d"," ","o","r"," ","a"," ","h","u","m","a","n"," ","l","a","w","y","e","r">>

(***************************************************************************)
(* State                                                                   *)
(***************************************************************************)
VARIABLES
    \* the ticket and its conversation in the store
    ticket_channel,        \* tickets.source_channel
    message,               \* the incoming message of the conversation
    status,                \* tickets.status
    resolution_notes,      \* tickets.resolution_notes
    outgoing,              \* the outgoing rows of messages, in insertion order
    \* settings
    whatsapp_mcp_enabled,  \* settings.whatsapp_mcp_enabled
    \* the process_message call in progress (or the last one finished)
    runs,                  \* calls of process_message started so far
    pc,                    \* where the call is
    runner,                \* "agent" (AgentRunner) or "whatsapp" (WhatsAppAgentRunner)
    channel,               \* the channel argument
    score,                 \* sentiment.score
    escalation,            \* the EscalationDecision
    quick_answer,          \* what get_quick_answer returned
    generated,             \* what the text generator returned
    content,               \* the text handed to _send_response
    result,                \* the value process_message returned
    caught,                \* the  except Exception  handler of process_message ran
    faults,                \* failures of external capabilities during the call
    sentiment_calls,       \* calls of analyze_sentiment during the call
    policy_evals,          \* calls of decide_escalation during the call
    generator_calls,       \* calls of generate_content_async during the call
    attempts,              \* the sends handed to a transport during the call
    stored,                \* the outgoing rows inserted during the call
    events,                \* the store writes and sends of the call, in order
    prev,                  \* the ticket and the call as the previous call left them
    \* the WhatsApp worker and the bridge database
    bridge,                \* ids of the incoming rows of the bridge's messages table
    tickets_created,       \* tickets created, per bridge message id
    published,             \* events published to the inbound topic, per message id
    polls,                 \* calls of poll_messages started so far
    poll_pc,               \* where the poll_messages call is
    unread,                \* what is left of the list get_unread_messages returned
    \* the callers of process_message on one ticket
    caller_pc,             \* where each caller is
    inbound,               \* events on the inbound topic not yet consumed
    requests,              \* API requests accepted so far
    ticket_status,         \* tickets.status as the callers read and leave it
    handled,               \* the payload _handle_message was given last
    runner_calls,          \* calls of process_message made by the message processor
    produced,              \* the publish calls of the message processor, in order
    producer_connected,    \* FTEKafkaProducer._connected, as start() left it
    handler_end,           \* how the last call of _handle_message ended
    \* one call of a function of the skills and the formatters
    skill_pc,              \* the function called, "idle" before the call
    skill_text,            \* its text argument
    skill_arg,             \* its other arguments
    skill_out,             \* the value it returned
    \* the customers table and the web-form submissions
    customers,             \* the email of each row of customers, by id
    tickets,               \* the tickets the submissions created, in order
    submit_pc,             \* where each call of submit_support_form is
    submit_email,          \* the email of each call
    submit_customer,       \* the customer id create_customer gave each call
    submissions,           \* submissions accepted so far
    rejected,              \* submissions answered with status 500
    overlapped,            \* a submission started while another was in flight
    email_unique,          \* customers.email carries a unique constraint
    \* database/connection.py
    pool,                  \* the module's _pool: 0 for None, else the pool's number
    get_pc,                \* where each call of get_pool is
    got,                   \* the pool each call of get_pool returned last
    created,               \* pools created so far
    fresh,                 \* pools created since the last close_pool ended
    handed,                \* pools get_pool returned since the last close_pool ended
    close_pc,              \* where the call of close_pool is
    \* channels/imap_poller.py
    mailbox,               \* the UIDs of the emails in the inbox
    seen,                  \* the UIDs flagged \Seen
    last_uid,              \* IMAPEmailPoller._last_uid, 0 for None
    state_file,            \* last_uid in imap_state.pkl, 0 when there is no file
    imap_pc,               \* where the call of poll_once is
    imap_uids,             \* the UIDs of the search still to be processed
    imap_tickets,          \* tickets created, per UID
    imap_polls,            \* calls of poll_once started so far
    \* api/main.py: POST /agent/process-batch
    batch_pc,              \* where the call of process_all_pending_tickets is
    batch_rows,            \* the rows of its SELECT still to be processed
    batch_status,          \* tickets.status, per ticket
    incoming,              \* incoming messages in the conversation, per ticket
    open_at_start,         \* the tickets that were 'open' when the SELECT ran
    batch_runs,            \* calls of process_message in this invocation, per ticket
    stale_runs,            \* those made on a ticket that was not 'open'
    results,               \* the handler's results dict
    \* kafka/client.py: FTEKafkaConsumer.consume
    topic_log,             \* the messages the consumer's iterator yields, in order
    offset,                \* how many of them consume has taken
    handler_pc,            \* "handling" while consume awaits the handler
    handler_log,           \* the starts and ends of the handler calls, in order
    consumer_connected     \* FTEKafkaConsumer._connected, as start() left it

store == <<ticket_channel, message, status, resolution_notes, outgoing>>

call == <<runner, channel, score, escalation, quick_answer, generated, content,
          result, caught, faults, sentiment_calls, policy_evals, generator_calls,
          attempts, stored>>

pipeline_vars == <<store, whatsapp_mcp_enabled, runs, pc, call, events, prev>>

poll_vars == <<bridge, tickets_created, published, polls, poll_pc, unread>>

caller_vars == <<caller_pc, inbound, requests, ticket_status, handled, runner_calls,
                 produced, producer_connected, handler_end>>

skill_vars == <<skill_pc, skill_text, skill_arg, skill_out>>

\* what the steps of process_message leave alone
customer_vars == <<customers, tickets, submit_pc, submit_email, submit_customer,
                   submissions, rejected, overlapped, email_unique>>

pool_vars == <<pool, get_pc, got, created, fresh, handed, close_pc>>

\* the services beside the pipeline and its callers
imap_vars == <<mailbox, seen, last_uid, state_file, imap_pc, imap_uids, imap_tickets,
               imap_polls>>

batch_vars == <<batch_pc, batch_rows, batch_status, incoming, open_at_start, batch_runs,
                stale_runs, results>>

consumer_vars == <<topic_log, offset, handler_pc, handler_log, consumer_connected>>

service_vars == <<customer_vars, pool_vars, imap_vars, batch_vars, consumer_vars>>

\* what the steps of process_message leave alone
outside == <<poll_vars, caller_vars, skill_vars, service_vars>>

vars == <<pipeline_vars, poll_vars, caller_vars, skill_vars, service_vars>>

(***************************************************************************)
(* Bounds and inputs                                                       *)
(***************************************************************************)
\* calls of process_message on the ticket
MaxRuns == 2

Channels == {"email", "web_form", "whatsapp"}

Messages ==
    {Msg_hi, Msg_thanks, Msg_refund, Msg_pricing, Msg_sue, Msg_human, Msg_manager,
     Msg_invite, Msg_reports, Msg_costume, Msg_issue, Msg_hello_refund,
     Msg_refund_lawyer}

\* the scores the sentiment model may give, in hundredths
Scores == {10, 20, 25, 30, 65}

\* the texts the generator may return
GeneratedTexts ==
    { \* "Open Settings, then Reports."
      <<"O","p","e","n"," ","S","e","t","t","i","n","g","s",","," ","t","h","e","n"," ",
        "R","e","p","o","r","t","s",".">>,
      \* " Your reports are  under the Team tab. / "
      <<" ","Y","o","u","r"," ","r","e","p","o","r","t","s"," ","a","r","e"," "," ",
        "u","n","d","e","r"," ","t","h","e"," ","T","e","a","m"," ","t","a","b",".","\n">>,
      \* "Open Settings, then Reports. " eleven times: 319 characters
      Repeat(<<"O","p","e","n"," ","S","e","t","t","i","n","g","s",","," ","t","h","e","n"," ",
               "R","e","p","o","r","t","s","."," ">>, 11) }

\* str(ticket id)
TicketId == <<"T", "1">>

\* the customer of a ticket has an email address on the email and web-form
\* channels (the form requires it) and a phone number on WhatsApp
customer_email == ticket_channel \in {"email", "web_form"}

customer_phone == ticket_channel = "whatsapp"

\* which runner a caller uses: the message processor uses WhatsAppAgentRunner
\* on the WhatsApp topic and AgentRunner otherwise; the API always uses
\* AgentRunner, with the ticket's channel
RunnersFor(ch) == IF ch = "whatsapp" THEN {"agent", "whatsapp"} ELSE {"agent"}

NoDecision == [none |-> TRUE]

\* prev before the first call
NoPrevious == [none |-> TRUE]

\* incoming messages the bridge may receive
MaxInbound == 2

\* calls of poll_messages by the worker loop
MaxPolls == 3

\* API requests for the ticket
MaxRequests == 3

\* ids of the bridge's rows, in timestamp order
MessageIds == 1..MaxInbound

\* who awaits process_message on a ticket: the Kafka message processor, the
\* handlers of POST /agent/process/{ticket_id} (two requests may be open at
\* once) and the handler of POST /agent/process-batch
ApiProcessHandlers == {"process_1", "process_2"}

Callers == {"processor", "batch"} \cup ApiProcessHandlers

(***************************************************************************)
(* skills/sentiment_analysis.py                                            *)
(***************************************************************************)
\* the score analyze_sentiment returns when the model call or the parse fails
NeutralScore == 50

\* analyze_sentiment with the lowest score as the default of the except branch
analyze_sentiment_HostileOnFailure(model_ok, model_score) ==
    IF model_ok THEN model_score ELSE 0

\* analyze_sentiment: model_ok is whether the model answered with valid JSON
analyze_sentiment(model_ok, model_score) ==
    IF model_ok THEN model_score ELSE NeutralScore

(***************************************************************************)
(* process_message                                                         *)
(***************************************************************************)
\* the worker before its first poll: the bridge database holds no incoming row
PollInit ==
    /\ bridge = {}
    /\ tickets_created = [m \in MessageIds |-> 0]
    /\ published = [m \in MessageIds |-> 0]
    /\ polls = 0
    /\ poll_pc = "idle"
    /\ unread = << >>

\* no payload has been handed to _handle_message yet
NoPayload == [ticket_id |-> None, customer_id |-> None, message |-> None]

\* the callers before any of them has touched the ticket: the channel handler
\* has created the ticket 'open' and published its one inbound event
CallersIdle ==
    /\ caller_pc = [c \in Callers |-> "idle"]
    /\ inbound = 1
    /\ requests = 0
    /\ ticket_status = "open"
    /\ handled = NoPayload
    /\ runner_calls = 0
    /\ produced = << >>
    /\ handler_end = "none"

\* the callers aside, with a producer that start() connected
CallersInit == CallersIdle /\ producer_connected = TRUE

\* the arguments of a skill call other than the text, before any call
NoArguments == [channel |-> "none", runner |-> "none", max_words |-> 0]

\* no function of the skills has been called
SkillsIdle ==
    /\ skill_pc = "idle"
    /\ skill_text = << >>
    /\ skill_arg = NoArguments
    /\ skill_out = None

\* the handlers of POST /support/submit
SubmitHandlers == {"submit_1", "submit_2"}

\* no submission yet and no customer
CustomersEmpty ==
    /\ customers = << >>
    /\ tickets = << >>
    /\ submit_pc = [h \in SubmitHandlers |-> "idle"]
    /\ submit_email = [h \in SubmitHandlers |-> "none"]
    /\ submit_customer = [h \in SubmitHandlers |-> 0]
    /\ submissions = 0
    /\ rejected = 0
    /\ overlapped = FALSE

\* the customers table aside, with the constraint on the email
CustomersIdle == CustomersEmpty /\ email_unique = TRUE

\* the coroutines that call get_pool
PoolCallers == {"api_1", "api_2", "worker"}

\* the module as imported: _pool = None, and no call yet
PoolIdle ==
    /\ pool = 0
    /\ get_pc = [c \in PoolCallers |-> "idle"]
    /\ got = [c \in PoolCallers |-> 0]
    /\ created = 0
    /\ fresh = 0
    /\ handed = {}
    /\ close_pc = "idle"

MaxEmails == 2

\* the UIDs the IMAP server can give
Uids == 1..MaxEmails

\* an empty inbox, no state file and a poller just constructed
ImapIdle ==
    /\ mailbox = {}
    /\ seen = {}
    /\ last_uid = 0
    /\ state_file = 0
    /\ imap_pc = "idle"
    /\ imap_uids = << >>
    /\ imap_tickets = [u \in Uids |-> 0]
    /\ imap_polls = 0

\* the tickets of the batch endpoint's database
BatchTickets == {1, 2}

\* the handler of POST /agent/process-batch before it is called
BatchNotCalled ==
    /\ batch_pc = "idle"
    /\ batch_rows = << >>
    /\ open_at_start = {}
    /\ batch_runs = [t \in BatchTickets |-> 0]
    /\ stale_runs = 0
    /\ results = [processed |-> 0, resolved |-> 0, escalated |-> 0, failed |-> 0]

\* the batch endpoint aside: open tickets of one incoming message each
BatchIdle ==
    /\ BatchNotCalled
    /\ batch_status = [t \in BatchTickets |-> "open"]
    /\ incoming = [t \in BatchTickets |-> 1]

\* a consumer that has taken nothing yet
ConsumerStarted ==
    /\ topic_log = << >>
    /\ offset = 0
    /\ handler_pc = "idle"
    /\ handler_log = << >>

\* the consumer aside, connected
ConsumerIdle == ConsumerStarted /\ consumer_connected = TRUE

\* the services beside the pipeline, before any of them is used
ServicesIdle ==
    /\ CustomersIdle
    /\ PoolIdle
    /\ ImapIdle
    /\ BatchIdle
    /\ ConsumerIdle

\* a ticket as a channel handler creates it, and no call of process_message yet
TicketOpen ==
    /\ status = "open"
    /\ resolution_notes = None
    /\ outgoing = << >>
    /\ runs = 0
    /\ pc = "idle"
    /\ runner = "none"
    /\ channel = "none"
    /\ score = -1
    /\ escalation = NoDecision
    /\ quick_answer = NoQuickAnswer
    /\ generated = None
    /\ content = None
    /\ result = None
    /\ caught = FALSE
    /\ faults = 0
    /\ sentiment_calls = 0
    /\ policy_evals = 0
    /\ generator_calls = 0
    /\ attempts = << >>
    /\ stored = 0
    /\ events = << >>
    /\ prev = NoPrevious

Init ==
    /\ ticket_channel \in Channels
    /\ message \in Messages
    /\ whatsapp_mcp_enabled \in BOOLEAN
    /\ TicketOpen
    /\ PollInit
    /\ CallersInit
    /\ SkillsIdle
    /\ ServicesIdle

\* the store writes among the events of a call, in order
IsWrite(e) == e # "send"

Writes(evs) == SelectSeq(evs, IsWrite)

\* a caller awaits process_message(ticket_id, customer_id, message, channel)
Receive(r) ==
    /\ pc \in {"idle", "returned", "raised"}
    /\ runs < MaxRuns
    /\ r \in RunnersFor(ticket_channel)
    /\ runs' = runs + 1
    /\ runner' = r
    /\ channel' = ticket_channel
    /\ pc' = IF r = "agent" THEN "sentiment" ELSE "quick_answer"
    /\ score' = -1
    /\ escalation' = NoDecision
    /\ quick_answer' = NoQuickAnswer
    /\ generated' = None
    /\ content' = None
    /\ result' = None
    /\ caught' = FALSE
    /\ faults' = 0
    /\ sentiment_calls' = 0
    /\ policy_evals' = 0
    /\ generator_calls' = 0
    /\ attempts' = << >>
    /\ stored' = 0
    /\ events' = << >>
    /\ prev' = [runner |-> runner, pc |-> pc, caught |-> caught,
                escalation |-> escalation, writes |-> Writes(events),
                status |-> status, resolution_notes |-> resolution_notes]
    /\ UNCHANGED <<store, whatsapp_mcp_enabled, outside>>

\* EscalateTicket appending the reason to the notes already there
EscalateTicket_AppendsNote(reason) ==
    /\ status' = "escalated"
    /\ resolution_notes' = IF resolution_notes = None
                           THEN EscalationNote(reason)
                           ELSE resolution_notes \o EscalationNote(reason)
    /\ events' = Append(events, "mark_escalated")

\* _escalate_ticket(ticket_id, reason): one UPDATE of the ticket row
EscalateTicket(reason) ==
    /\ status' = "escalated"
    /\ resolution_notes' = EscalationNote(reason)
    /\ events' = Append(events, "mark_escalated")

\* Step 1 of AgentRunner, step 4 of WhatsAppAgentRunner:
\* sentiment = await analyze_sentiment(message)
AnalyzeSentiment ==
    /\ pc = "sentiment"
    /\ \E model_ok \in BOOLEAN, model_score \in Scores :
           /\ score' = analyze_sentiment(model_ok, model_score)
           /\ faults' = IF model_ok THEN faults ELSE faults + 1
    /\ sentiment_calls' = sentiment_calls + 1
    /\ pc' = "decide"
    /\ UNCHANGED <<store, whatsapp_mcp_enabled, runs, runner, channel, escalation,
                   quick_answer, generated, content, result, caught, policy_evals,
                   generator_calls, attempts,
                   stored,
                   events, prev, outside>>

\* escalation = decide_escalation(message, sentiment.score)
DecideEscalation ==
    /\ pc = "decide"
    /\ escalation' = decide_escalation(message, score)
    /\ policy_evals' = policy_evals + 1
    /\ pc' = IF escalation'.should_escalate THEN "escalate" ELSE "context"
    /\ UNCHANGED <<store, whatsapp_mcp_enabled, runs, runner, channel, score,
                   quick_answer, generated, content, result, caught, faults,
                   sentiment_calls, generator_calls, attempts,
                   stored,
                   events, prev, outside>>

\* PolicyEscalate without the return: the ticket is escalated and the run goes
\* on to build the context and generate
PolicyEscalate_FallsThrough ==
    /\ pc = "escalate"
    /\ \E write_ok \in BOOLEAN :
           IF write_ok
           THEN /\ EscalateTicket(escalation.reason)
                /\ pc' = "context"
                /\ UNCHANGED faults
           ELSE /\ pc' = "except"
                /\ faults' = faults + 1
                /\ UNCHANGED <<status, resolution_notes, events>>
    /\ UNCHANGED <<ticket_channel, message, outgoing, whatsapp_mcp_enabled, runs,
                   runner, channel, score, escalation, quick_answer, generated,
                   content, result, caught, sentiment_calls, policy_evals,
                   generator_calls, attempts, stored,
                   prev, outside>>

\* if escalation.should_escalate: await self._escalate_ticket(ticket_id,
\* escalation.reason); return self._get_escalation_response(channel)
PolicyEscalate ==
    /\ pc = "escalate"
    /\ \E write_ok \in BOOLEAN :
           IF write_ok
           THEN /\ EscalateTicket(escalation.reason)
                /\ result' = GetEscalationResponse(runner, channel)
                /\ pc' = "returned"
                /\ UNCHANGED faults
           ELSE /\ pc' = "except"
                /\ faults' = faults + 1
                /\ UNCHANGED <<status, resolution_notes, result, events>>
    /\ UNCHANGED <<ticket_channel, message, outgoing, whatsapp_mcp_enabled, runs,
                   runner, channel, score, escalation, quick_answer, generated,
                   content, caught, sentiment_calls, policy_evals, generator_calls,
                   attempts,
                   stored,
                   prev, outside>>

\* context = await self._build_context(customer_id, message, channel): reads
\* the customer and the history; a failed knowledge-base search is swallowed
\* by _search_knowledge_base
BuildContext ==
    /\ pc = "context"
    /\ \E read_ok \in BOOLEAN :
           /\ pc' = IF read_ok THEN "generate" ELSE "except"
           /\ faults' = IF read_ok THEN faults ELSE faults + 1
    /\ UNCHANGED <<store, whatsapp_mcp_enabled, runs, runner, channel, score,
                   escalation, quick_answer, generated, content, result, caught,
                   sentiment_calls, policy_evals, generator_calls, attempts,
                   stored,
                   events, prev, outside>>

\* response = await self._generate_response(context, message, channel)
Generate ==
    /\ pc = "generate"
    /\ \E g \in GeneratedTexts \cup {GeneratorRaises} :
           /\ generated' = g
           /\ content' = GenerateResponse(runner, channel, g)
           /\ faults' = IF g = GeneratorRaises THEN faults + 1 ELSE faults
    /\ generator_calls' = generator_calls + 1
    /\ pc' = "send_fetch"
    /\ UNCHANGED <<store, whatsapp_mcp_enabled, runs, runner, channel, score,
                   escalation, quick_answer, result, caught, sentiment_calls,
                   policy_evals, attempts,
                   stored,
                   events, prev, outside>>

\* _send_response, first statement: the SELECT of the ticket joined with its
\* conversation and customer;  if not row: raise ValueError
SendFetch ==
    /\ pc = "send_fetch"
    /\ \E row \in {"row", "no_row", "error"} :
           /\ pc' = IF row = "row" THEN "send_insert" ELSE "except"
           /\ faults' = IF row = "row" THEN faults ELSE faults + 1
    /\ UNCHANGED <<store, whatsapp_mcp_enabled, runs, runner, channel, score,
                   escalation, quick_answer, generated, content, result, caught,
                   sentiment_calls, policy_evals, generator_calls, attempts,
                   stored,
                   events, prev, outside>>

\* the row _send_response inserts: AgentRunner stores the formatted text under
\* the ticket's channel, WhatsAppAgentRunner the text as given under its
\* channel argument
OutgoingRow ==
    IF runner = "agent"
    THEN [channel |-> ticket_channel, role |-> "agent",
          content |-> format_for_channel(content, ticket_channel, TicketId)]
    ELSE [channel |-> channel, role |-> "agent", content |-> content]

\* _send_response: INSERT INTO messages.  The driver encodes the content
\* argument as text and raises for a value that is not a str
SendInsert ==
    /\ pc = "send_insert"
    /\ IF IsCoroutine(content)
       THEN /\ pc' = "except"
            /\ UNCHANGED <<outgoing, faults, stored, events>>
       ELSE \E write_ok \in BOOLEAN :
                IF write_ok
                THEN /\ outgoing' = Append(outgoing, OutgoingRow)
                     /\ stored' = stored + 1
                     /\ events' = Append(events, "store_message")
                     /\ pc' = "send_update"
                     /\ UNCHANGED faults
                ELSE /\ pc' = "except"
                     /\ faults' = faults + 1
                     /\ UNCHANGED <<outgoing, stored, events>>
    /\ UNCHANGED <<ticket_channel, message, status, resolution_notes,
                   whatsapp_mcp_enabled, runs, runner, channel, score, escalation,
                   quick_answer, generated, content, result, caught, sentiment_calls,
                   policy_evals, generator_calls, attempts,
                   prev, outside>>

\* _send_response: UPDATE tickets SET status = 'resolved', resolved_at = NOW()
SendUpdate ==
    /\ pc = "send_update"
    /\ \E write_ok \in BOOLEAN :
           IF write_ok
           THEN /\ status' = "resolved"
                /\ events' = Append(events, "mark_resolved")
                /\ pc' = "send_deliver"
                /\ UNCHANGED faults
           ELSE /\ pc' = "except"
                /\ faults' = faults + 1
                /\ UNCHANGED <<status, events>>
    /\ UNCHANGED <<ticket_channel, message, resolution_notes, outgoing,
                   whatsapp_mcp_enabled, runs, runner, channel, score, escalation,
                   quick_answer, generated, content, result, caught, sentiment_calls,
                   policy_evals, generator_calls, attempts,
                   stored,
                   prev, outside>>

\* WhatsAppHandler.send_response cuts the text to this many characters
WhatsAppSendLimit == 300

\* what can come of the WhatsApp send of _send_response: the handler does not
\* initialize (nothing is sent); the bridge refuses the message; the bridge
\* takes it and WhatsAppHandler.send_response stores a second outgoing row;
\* the bridge takes it and that second INSERT fails.  Every exception is
\* swallowed (send_response returns False, _send_response logs)
WhatsAppSendOutcomes == {"not_initialized", "send_failed", "sent_stored", "sent_not_stored"}

\* WhatsAppHandler.initialize and send_response, as called by _send_response
WhatsAppSend(outcome) ==
    LET truncated_response == Slice(content, WhatsAppSendLimit)
        attempt(ok) == [transport |-> "whatsapp_bridge", text |-> truncated_response,
                        ok |-> ok]
    IN  /\ attempts' = CASE outcome = "not_initialized" -> attempts
                         [] outcome = "send_failed" -> Append(attempts, attempt(FALSE))
                         [] OTHER -> Append(attempts, attempt(TRUE))
        /\ outgoing' = IF outcome = "sent_stored"
                       THEN Append(outgoing, [channel |-> "whatsapp", role |-> "support",
                                              content |-> truncated_response])
                       ELSE outgoing
        /\ stored' = IF outcome = "sent_stored" THEN stored + 1 ELSE stored
        /\ events' = CASE outcome = "not_initialized" -> events
                        [] outcome = "sent_stored" -> events \o <<"send", "store_message">>
                        [] OTHER -> Append(events, "send")

\* what can come of GmailHandler.send_reply: the sends attempted, in order.
\* The Gmail API send succeeds; or it raises and the SMTP fallback sends,
\* fails or is not configured; or the Gmail service is not available and
\* SMTP alone is tried; or nothing is attempted at all
EmailSendOutcomes ==
    { <<[transport |-> "gmail_api", ok |-> TRUE]>>,
      <<[transport |-> "gmail_api", ok |-> FALSE], [transport |-> "smtp", ok |-> TRUE]>>,
      <<[transport |-> "gmail_api", ok |-> FALSE], [transport |-> "smtp", ok |-> FALSE]>>,
      <<[transport |-> "gmail_api", ok |-> FALSE]>>,
      <<[transport |-> "smtp", ok |-> TRUE]>>,
      <<[transport |-> "smtp", ok |-> FALSE]>>,
      << >> }

\* GmailHandler.send_reply(content=content), as called by _send_response
EmailSend(sends) ==
    /\ attempts' = attempts \o
           [i \in DOMAIN sends |->
               [transport |-> sends[i].transport, text |-> content, ok |-> sends[i].ok]]
    /\ events' = events \o [i \in DOMAIN sends |-> "send"]
    /\ UNCHANGED <<outgoing, stored>>

\* Deliver without the try block around the WhatsApp send: a failed send
\* reaches the except handler of process_message
Deliver_SendFailureEscapes ==
    /\ pc = "send_deliver"
    /\ IF (runner = "agent" /\ ticket_channel = "whatsapp" /\ customer_phone)
          \/ (runner = "whatsapp" /\ channel = "whatsapp" /\ customer_phone)
       THEN \E outcome \in WhatsAppSendOutcomes :
                /\ IF whatsapp_mcp_enabled
                   THEN WhatsAppSend(outcome)
                   ELSE UNCHANGED <<attempts, outgoing, stored, events>>
                /\ IF whatsapp_mcp_enabled /\ outcome = "send_failed"
                   THEN /\ pc' = "except"
                        /\ faults' = faults + 1
                        /\ UNCHANGED result
                   ELSE /\ pc' = "returned"
                        /\ result' = content
                        /\ UNCHANGED faults
       ELSE IF runner = "agent" /\ customer_email
       THEN \E subject_ok \in BOOLEAN :
                IF ~subject_ok
                THEN /\ pc' = "except"
                     /\ faults' = faults + 1
                     /\ UNCHANGED <<attempts, outgoing, stored, events, result>>
                ELSE /\ IF ticket_channel = "email"
                        THEN \E sends \in EmailSendOutcomes : EmailSend(sends)
                        ELSE UNCHANGED <<attempts, outgoing, stored, events>>
                     /\ pc' = "returned"
                     /\ result' = content
                     /\ UNCHANGED faults
       ELSE /\ pc' = "returned"
            /\ result' = content
            /\ UNCHANGED <<attempts, outgoing, stored, events, faults>>
    /\ UNCHANGED <<ticket_channel, message, status, resolution_notes,
                   whatsapp_mcp_enabled, runs, runner, channel, score, escalation,
                   quick_answer, generated, content, caught, sentiment_calls,
                   policy_evals, generator_calls,
                   prev, outside>>

\* _send_response, after the UPDATE: the send on the ticket's channel, then
\* process_message returns the text.  AgentRunner sends on WhatsApp when the
\* customer has a phone, else by email when the customer has an address (a
\* web-form ticket reads the subject row and sends nothing);
\* WhatsAppAgentRunner sends on WhatsApp only.  The read of the subject row is
\* outside the try block of the send
Deliver ==
    /\ pc = "send_deliver"
    /\ IF (runner = "agent" /\ ticket_channel = "whatsapp" /\ customer_phone)
          \/ (runner = "whatsapp" /\ channel = "whatsapp" /\ customer_phone)
       THEN /\ IF whatsapp_mcp_enabled
               THEN \E outcome \in WhatsAppSendOutcomes : WhatsAppSend(outcome)
               ELSE UNCHANGED <<attempts, outgoing, stored, events>>
            /\ pc' = "returned"
            /\ result' = content
            /\ UNCHANGED faults
       ELSE IF runner = "agent" /\ customer_email
       THEN \E subject_ok \in BOOLEAN :
                IF ~subject_ok
                THEN /\ pc' = "except"
                     /\ faults' = faults + 1
                     /\ UNCHANGED <<attempts, outgoing, stored, events, result>>
                ELSE /\ IF ticket_channel = "email"
                        THEN \E sends \in EmailSendOutcomes : EmailSend(sends)
                        ELSE UNCHANGED <<attempts, outgoing, stored, events>>
                     /\ pc' = "returned"
                     /\ result' = content
                     /\ UNCHANGED faults
       ELSE /\ pc' = "returned"
            /\ result' = content
            /\ UNCHANGED <<attempts, outgoing, stored, events, faults>>
    /\ UNCHANGED <<ticket_channel, message, status, resolution_notes,
                   whatsapp_mcp_enabled, runs, runner, channel, score, escalation,
                   quick_answer, generated, content, caught, sentiment_calls,
                   policy_evals, generator_calls,
                   prev, outside>>

\* ErrorFallback without the escalation: the handler only returns the fallback
\* text
ErrorFallback_NoEscalation ==
    /\ pc = "except"
    /\ caught' = TRUE
    /\ result' = ErrorFallbackText(runner)
    /\ pc' = "returned"
    /\ UNCHANGED <<store, whatsapp_mcp_enabled, runs, runner, channel, score,
                   escalation, quick_answer, generated, content, faults,
                   sentiment_calls, policy_evals, generator_calls, attempts, stored,
                   events, prev, outside>>

\* except Exception: await self._escalate_ticket(ticket_id, "agent_error");
\* return the fallback text.  The handler's own store write is not guarded
ErrorFallback ==
    /\ pc = "except"
    /\ caught' = TRUE
    /\ \E write_ok \in BOOLEAN :
           IF write_ok
           THEN /\ EscalateTicket(AgentErrorReason)
                /\ result' = ErrorFallbackText(runner)
                /\ pc' = "returned"
                /\ UNCHANGED faults
           ELSE /\ pc' = "raised"
                /\ faults' = faults + 1
                /\ UNCHANGED <<status, resolution_notes, result, events>>
    /\ UNCHANGED <<ticket_channel, message, outgoing, whatsapp_mcp_enabled, runs,
                   runner, channel, score, escalation, quick_answer, generated,
                   content, sentiment_calls, policy_evals, generator_calls, attempts,
                   stored,
                   prev, outside>>

\* QuickAnswerLookup with the sentiment analysis placed before the use of the
\* quick answer: a matched message is scored first
QuickAnswerLookup_ScoresFirst ==
    /\ pc = "quick_answer"
    /\ quick_answer' = get_quick_answer(message)
    /\ pc' = IF quick_answer' # NoQuickAnswer THEN "sentiment" ELSE "courtesy"
    /\ UNCHANGED <<store, whatsapp_mcp_enabled, runs, runner, channel, score,
                   escalation, generated, content, result, caught, faults,
                   sentiment_calls, policy_evals, generator_calls, attempts, stored,
                   events, prev, outside>>

\* Step 1 of WhatsAppAgentRunner: quick_answer = await get_quick_answer(message)
QuickAnswerLookup ==
    /\ pc = "quick_answer"
    /\ quick_answer' = get_quick_answer(message)
    /\ IF quick_answer' # NoQuickAnswer
       THEN IF quick_answer'.escalate
            THEN pc' = "quick_answer_escalate" /\ UNCHANGED content
            ELSE pc' = "send_fetch" /\ content' = quick_answer'.response
       ELSE pc' = "courtesy" /\ UNCHANGED content
    /\ UNCHANGED <<store, whatsapp_mcp_enabled, runs, runner, channel, score,
                   escalation, generated, result, caught, faults, sentiment_calls,
                   policy_evals, generator_calls, attempts,
                   stored,
                   events, prev, outside>>

\* if quick_answer.get("escalate"): await self._escalate_ticket(ticket_id,
\* f"quick_answer_{intent}"); then _send_response(quick_answer["response"])
QuickAnswerEscalate ==
    /\ pc = "quick_answer_escalate"
    /\ \E write_ok \in BOOLEAN :
           IF write_ok
           THEN /\ EscalateTicket(QuickAnswerReason(quick_answer.intent))
                /\ content' = quick_answer.response
                /\ pc' = "send_fetch"
                /\ UNCHANGED faults
           ELSE /\ pc' = "except"
                /\ faults' = faults + 1
                /\ UNCHANGED <<status, resolution_notes, content, events>>
    /\ UNCHANGED <<ticket_channel, message, outgoing, whatsapp_mcp_enabled, runs,
                   runner, channel, score, escalation, quick_answer, generated,
                   result, caught, sentiment_calls, policy_evals, generator_calls,
                   attempts,
                   stored,
                   prev, outside>>

\* greeting = handle_greeting(message), at WhatsAppAgentRunner step 2: the
\* call is not awaited
GreetingValue(msg) == CallWithoutAwait("handle_greeting")

\* thanks = handle_thanks(message), at WhatsAppAgentRunner step 3: the call is
\* not awaited
ThanksValue(msg) == CallWithoutAwait("handle_thanks")

\* Steps 2 and 3 of WhatsAppAgentRunner:  if greeting: send it;  if thanks:
\* send it;  else go on to the sentiment analysis
Courtesy ==
    /\ pc = "courtesy"
    /\ LET greeting == GreetingValue(message)
           thanks == ThanksValue(message)
       IN  IF Truthy(greeting)
           THEN content' = greeting /\ pc' = "send_fetch"
           ELSE IF Truthy(thanks)
           THEN content' = thanks /\ pc' = "send_fetch"
           ELSE pc' = "sentiment" /\ UNCHANGED content
    /\ UNCHANGED <<store, whatsapp_mcp_enabled, runs, runner, channel, score,
                   escalation, quick_answer, generated, result, caught, faults,
                   sentiment_calls, policy_evals, generator_calls, attempts,
                   stored,
                   events, prev, outside>>

Next ==
    \/ \E r \in {"agent", "whatsapp"} : Receive(r)
    \/ QuickAnswerLookup
    \/ QuickAnswerEscalate
    \/ Courtesy
    \/ AnalyzeSentiment
    \/ DecideEscalation
    \/ PolicyEscalate
    \/ BuildContext
    \/ Generate
    \/ SendFetch
    \/ SendInsert
    \/ SendUpdate
    \/ Deliver
    \/ ErrorFallback

Spec == Init /\ [][Next]_vars

(***************************************************************************)
(* channels/whatsapp_handler.py, workers/whatsapp_worker.py: polling       *)
(***************************************************************************)
\* the ticket the other two specifications leave alone
TicketAside ==
    /\ ticket_channel = "whatsapp"
    /\ message = Msg_hi
    /\ whatsapp_mcp_enabled = TRUE
    /\ TicketOpen

\* the Go bridge writes an incoming message to its messages table
Arrive ==
    /\ Cardinality(bridge) < MaxInbound
    /\ bridge' = bridge \cup {Cardinality(bridge) + 1}
    /\ UNCHANGED <<tickets_created, published, polls, poll_pc, unread,
                   pipeline_vars, caller_vars, skill_vars,
                   service_vars>>

\* get_unread_messages(chat_jid): every row with is_from_me = 0, oldest
\* first (the query has no condition on a read flag); [] when the query fails
get_unread_messages(query_ok) ==
    IF query_ok THEN [i \in 1..Cardinality(bridge) |-> i] ELSE << >>

\* the worker loop calls poll_messages, which reads the unread messages of
\* the chat
PollStart ==
    /\ poll_pc = "idle"
    /\ polls < MaxPolls
    /\ polls' = polls + 1
    /\ \E query_ok \in BOOLEAN : unread' = get_unread_messages(query_ok)
    /\ poll_pc' = "processing"
    /\ UNCHANGED <<bridge, tickets_created, published, pipeline_vars, caller_vars, skill_vars,
                   service_vars>>

\* what process_inbound_message can do: create the ticket, store the message
\* and publish; the same with the publish skipped or failed inside
\* FTEKafkaProducer.publish; raise before the ticket exists; raise after it
ProcessInboundOutcomes ==
    {"published", "publish_skipped", "fails_before_ticket", "fails_after_ticket"}

\* mark_message_read(msg.id): returns True and changes nothing
mark_message_read(rows, id) == rows

\* one turn of  for msg in unread:  process_inbound_message, then
\* mark_message_read when it returned a ticket id
ProcessInbound ==
    /\ poll_pc = "processing"
    /\ unread # << >>
    /\ LET msg == Head(unread)
       IN  \E outcome \in ProcessInboundOutcomes :
               /\ tickets_created' =
                      IF outcome = "fails_before_ticket" THEN tickets_created
                      ELSE [tickets_created EXCEPT ![msg] = @ + 1]
               /\ published' =
                      IF outcome = "published"
                      THEN [published EXCEPT ![msg] = @ + 1]
                      ELSE published
               /\ bridge' =
                      IF outcome \in {"published", "publish_skipped"}
                      THEN mark_message_read(bridge, msg)
                      ELSE bridge
    /\ unread' = Tail(unread)
    /\ UNCHANGED <<polls, poll_pc, pipeline_vars, caller_vars, skill_vars,
                   service_vars>>

\* poll_messages returns; the worker sleeps until the next poll
PollEnd ==
    /\ poll_pc = "processing"
    /\ unread = << >>
    /\ poll_pc' = "idle"
    /\ UNCHANGED <<bridge, tickets_created, published, polls, unread,
                   pipeline_vars, caller_vars, skill_vars,
                   service_vars>>

InitPoll == TicketAside /\ PollInit /\ CallersInit /\ SkillsIdle /\ ServicesIdle

NextPoll ==
    \/ Arrive
    \/ PollStart
    \/ ProcessInbound
    \/ PollEnd

SpecPoll == InitPoll /\ [][NextPoll]_vars

(***************************************************************************)
(* workers/message_processor.py, api/main.py: who runs process_message     *)
(***************************************************************************)
\* a key the payload does not have
Absent == <<"absent">>

\* message.get(key) and message.get(key, default)
Get(value, default) == IF value = Absent THEN default ELSE value

\* the payloads a producer can have put on the inbound topic: each key absent,
\* empty or with text
InboundPayloads ==
    [ticket_id : {Absent, << >>, <<"t","1">>},
     customer_id : {Absent, << >>, <<"c","1">>},
     message : {Absent, << >>, <<"h","e","l","p">>}]

\* all([ticket_id, customer_id, customer_message])
RequiredFields(payload) ==
    /\ Truthy(Get(payload.ticket_id, None))
    /\ Truthy(Get(payload.customer_id, None))
    /\ Truthy(Get(payload.message, << >>))

\* Consume without the test of the required fields
Consume_NoValidation ==
    /\ caller_pc["processor"] = "idle"
    /\ inbound > 0
    /\ inbound' = inbound - 1
    /\ \E payload \in InboundPayloads :
           /\ handled' = payload
           /\ caller_pc' = [caller_pc EXCEPT !["processor"] = "running"]
           /\ runner_calls' = runner_calls + 1
    /\ UNCHANGED <<requests, ticket_status, produced, producer_connected, handler_end,
                   pipeline_vars, poll_vars, skill_vars,
                   service_vars>>

\* FTEKafkaConsumer.consume hands the next inbound event to _handle_message,
\* which returns at once when a required field is missing or empty and
\* otherwise awaits process_message; the consumer takes one event at a time
Consume ==
    /\ caller_pc["processor"] = "idle"
    /\ inbound > 0
    /\ inbound' = inbound - 1
    /\ \E payload \in InboundPayloads :
           /\ handled' = payload
           /\ IF RequiredFields(payload)
              THEN /\ caller_pc' = [caller_pc EXCEPT !["processor"] = "running"]
                   /\ runner_calls' = runner_calls + 1
              ELSE UNCHANGED <<caller_pc, runner_calls>>
    /\ UNCHANGED <<requests, ticket_status, produced, producer_connected, handler_end,
                   pipeline_vars, poll_vars, skill_vars,
                   service_vars>>

\* POST /agent/process/{ticket_id}: the handler reads the ticket, its first
\* incoming message and its customer; the ticket's status is not looked at
ProcessTicketFetch(h) ==
    /\ caller_pc[h] = "idle"
    /\ requests < MaxRequests
    /\ requests' = requests + 1
    /\ caller_pc' = [caller_pc EXCEPT ![h] = "selected"]
    /\ UNCHANGED <<inbound, ticket_status, handled, runner_calls, produced,
                   producer_connected, handler_end, pipeline_vars, poll_vars, skill_vars,
                   service_vars>>

\* POST /agent/process-batch: the handler selects the tickets WHERE
\* t.status = 'open'
BatchFetch ==
    /\ caller_pc["batch"] = "idle"
    /\ requests < MaxRequests
    /\ requests' = requests + 1
    /\ caller_pc' = [caller_pc EXCEPT
           !["batch"] = IF ticket_status = "open" THEN "selected" ELSE "idle"]
    /\ UNCHANGED <<inbound, ticket_status, handled, runner_calls, produced,
                   producer_connected, handler_end, pipeline_vars, poll_vars, skill_vars,
                   service_vars>>

\* response = await runner.process_message(...), in either API handler
AwaitProcessMessage(c) ==
    /\ caller_pc[c] = "selected"
    /\ caller_pc' = [caller_pc EXCEPT ![c] = "running"]
    /\ UNCHANGED <<inbound, requests, ticket_status, handled, runner_calls, produced,
                   producer_connected, handler_end, pipeline_vars, poll_vars, skill_vars,
                   service_vars>>

\* how a call of process_message leaves the status: _send_response wrote
\* 'resolved' last, _escalate_ticket wrote 'escalated' last, or no write took
\* effect
RunLeaves == {"resolved", "escalated", "unchanged"}

\* FTEKafkaProducer.publish raising what send_and_wait raises
publish_Unguarded(connected, send_ok) ==
    IF ~connected THEN [outcome |-> "skipped", raised |-> FALSE]
    ELSE IF send_ok THEN [outcome |-> "sent", raised |-> FALSE]
    ELSE [outcome |-> "failed", raised |-> TRUE]

\* FTEKafkaProducer.publish: what became of the event and whether the call
\* raised.  Without a connection the event is skipped; an exception of
\* send_and_wait is logged
publish(connected, send_ok) ==
    IF ~connected THEN [outcome |-> "skipped", raised |-> FALSE]
    ELSE IF send_ok THEN [outcome |-> "sent", raised |-> FALSE]
    ELSE [outcome |-> "failed", raised |-> FALSE]

\* whether send_and_wait succeeds, for each of the handler's three publishes
SendResults == [metrics : BOOLEAN, escalations : BOOLEAN, dlq : BOOLEAN]

\* one publish call as the handler made it
Published(topic, p) == <<[topic |-> topic, outcome |-> p.outcome, raised |-> p.raised]>>

\* _handle_message from the end of process_message on: the metrics event, the
\* read of the ticket, the escalation event when the ticket reads 'escalated',
\* and in the except branch the dead-letter event.  ended is how
\* process_message ended, read_ok whether get_pool and fetchrow succeed
HandlerTail(ended, connected, sends, read_ok, read_status) ==
    LET metrics == publish(connected, sends.metrics)
        escalations == publish(connected, sends.escalations)
        dlq == publish(connected, sends.dlq)
        try == IF ended = "raised" THEN [pub |-> << >>, raised |-> TRUE]
               ELSE IF metrics.raised \/ ~read_ok
               THEN [pub |-> Published("metrics", metrics), raised |-> TRUE]
               ELSE IF read_status # "escalated"
               THEN [pub |-> Published("metrics", metrics), raised |-> FALSE]
               ELSE [pub |-> Published("metrics", metrics)
                                 \o Published("escalations", escalations),
                     raised |-> escalations.raised]
    IN  IF ~try.raised
        THEN [pub |-> try.pub, end |-> "returned"]
        ELSE [pub |-> try.pub \o Published("dlq", dlq),
              end |-> IF dlq.raised THEN "raised" ELSE "returned"]

\* process_message ends and its caller goes on to its end
ProcessMessageEnds(c) ==
    /\ caller_pc[c] = "running"
    /\ \E left \in RunLeaves :
           ticket_status' = IF left = "unchanged" THEN ticket_status ELSE left
    /\ caller_pc' = [caller_pc EXCEPT ![c] = "idle"]
    /\ IF c = "processor"
       THEN \E ended \in {"returned", "raised"}, sends \in SendResults,
               read_ok \in BOOLEAN :
                LET tail == HandlerTail(ended, producer_connected, sends, read_ok,
                                        ticket_status')
                IN  /\ produced' = produced \o tail.pub
                    /\ handler_end' = tail.end
       ELSE UNCHANGED <<produced, handler_end>>
    /\ UNCHANGED <<inbound, requests, handled, runner_calls, producer_connected,
                   pipeline_vars, poll_vars, skill_vars,
                   service_vars>>

InitCallers ==
    /\ TicketAside
    /\ PollInit
    /\ CallersIdle
    /\ producer_connected \in BOOLEAN
    /\ SkillsIdle
    /\ ServicesIdle

NextCallers ==
    \/ Consume
    \/ \E h \in ApiProcessHandlers : ProcessTicketFetch(h)
    \/ BatchFetch
    \/ \E c \in Callers \ {"processor"} : AwaitProcessMessage(c)
    \/ \E c \in Callers : ProcessMessageEnds(c)

SpecCallers == InitCallers /\ [][NextCallers]_vars

(***************************************************************************)
(* workers/message_processor.py: one event through the pipeline            *)
(***************************************************************************)
\* the runner _handle_message awaits: WhatsAppAgentRunner on the WhatsApp
\* topic, AgentRunner on the others
RunnerOfProcessor(ch) == IF ch = "whatsapp" THEN "whatsapp" ELSE "agent"

\* response = await runner.process_message(...), in _handle_message
ProcessorCalls ==
    /\ caller_pc["processor"] = "running"
    /\ pc = "idle"
    /\ Receive(RunnerOfProcessor(ticket_channel))

\* process_message has returned or raised, and _handle_message runs to its end
HandlerReturns ==
    /\ caller_pc["processor"] = "running"
    /\ pc \in {"returned", "raised"}
    /\ \E sends \in SendResults, read_ok \in BOOLEAN :
           LET tail == HandlerTail(pc, producer_connected, sends, read_ok, status)
           IN  /\ produced' = produced \o tail.pub
               /\ handler_end' = tail.end
    /\ caller_pc' = [caller_pc EXCEPT !["processor"] = "idle"]
    /\ UNCHANGED <<inbound, requests, ticket_status, handled, runner_calls,
                   producer_connected, pipeline_vars, poll_vars, skill_vars,
                   service_vars>>

InitProcessor ==
    /\ ticket_channel \in Channels
    /\ message \in Messages
    /\ whatsapp_mcp_enabled \in BOOLEAN
    /\ TicketOpen
    /\ PollInit
    /\ CallersIdle
    /\ producer_connected \in BOOLEAN
    /\ SkillsIdle
    /\ ServicesIdle

NextProcessor ==
    \/ Consume
    \/ ProcessorCalls
    \/ QuickAnswerLookup
    \/ QuickAnswerEscalate
    \/ Courtesy
    \/ AnalyzeSentiment
    \/ DecideEscalation
    \/ PolicyEscalate
    \/ BuildContext
    \/ Generate
    \/ SendFetch
    \/ SendInsert
    \/ SendUpdate
    \/ Deliver
    \/ ErrorFallback
    \/ HandlerReturns

SpecProcessor == InitProcessor /\ [][NextProcessor]_vars

(***************************************************************************)
(* database/queries.py, api/main.py: customers by email                    *)
(***************************************************************************)
\* the emails of the submissions
Emails == {"ann@example.com", "bob@example.com"}

MaxSubmissions == 3

\* what the steps of a submission leave alone
beside_customers == <<pipeline_vars, poll_vars, caller_vars, skill_vars, pool_vars,
                      imap_vars, batch_vars, consumer_vars>>

\* the call of submit_support_form is between two of its statements
InFlight(h) == submit_pc[h] \in {"insert", "ticket"}

\* the rows of customers with this email
RowsWith(e) == {i \in DOMAIN customers : customers[i] = e}

\* create_customer going to its INSERT without looking the email up
CreateCustomerSelect_NoLookup(h, e) ==
    /\ submit_pc[h] = "idle"
    /\ submissions < MaxSubmissions
    /\ submissions' = submissions + 1
    /\ submit_email' = [submit_email EXCEPT ![h] = e]
    /\ overlapped' = (overlapped \/ \E g \in SubmitHandlers \ {h} : InFlight(g))
    /\ submit_customer' = [submit_customer EXCEPT ![h] = 0]
    /\ submit_pc' = [submit_pc EXCEPT ![h] = "insert"]
    /\ UNCHANGED <<customers, tickets, rejected, email_unique, beside_customers>>

\* submit_support_form calls create_customer(pool, email, name), which runs
\* SELECT id FROM customers WHERE email = $1 and returns the id of a row it
\* finds
CreateCustomerSelect(h, e) ==
    /\ submit_pc[h] = "idle"
    /\ submissions < MaxSubmissions
    /\ submissions' = submissions + 1
    /\ submit_email' = [submit_email EXCEPT ![h] = e]
    /\ overlapped' = (overlapped \/ \E g \in SubmitHandlers \ {h} : InFlight(g))
    /\ IF RowsWith(e) # {}
       THEN \E i \in RowsWith(e) :
                /\ submit_customer' = [submit_customer EXCEPT ![h] = i]
                /\ submit_pc' = [submit_pc EXCEPT ![h] = "ticket"]
       ELSE /\ submit_customer' = [submit_customer EXCEPT ![h] = 0]
            /\ submit_pc' = [submit_pc EXCEPT ![h] = "insert"]
    /\ UNCHANGED <<customers, tickets, rejected, email_unique, beside_customers>>

\* INSERT INTO customers (email, phone, name) ... RETURNING id.  Under a
\* unique constraint on the email the statement raises when a row with the
\* email is there, and submit_support_form answers 500
CreateCustomerInsert(h) ==
    /\ submit_pc[h] = "insert"
    /\ IF email_unique /\ RowsWith(submit_email[h]) # {}
       THEN /\ submit_pc' = [submit_pc EXCEPT ![h] = "failed"]
            /\ UNCHANGED <<customers, submit_customer>>
       ELSE /\ customers' = Append(customers, submit_email[h])
            /\ submit_customer' = [submit_customer EXCEPT ![h] = Len(customers) + 1]
            /\ submit_pc' = [submit_pc EXCEPT ![h] = "ticket"]
    /\ UNCHANGED <<tickets, submit_email, submissions, rejected, overlapped,
                   email_unique, beside_customers>>

\* create_ticket(pool, customer_id, "web_form", ...) and the incoming message
CreateTicket(h) ==
    /\ submit_pc[h] = "ticket"
    /\ tickets' = Append(tickets, [customer_id |-> submit_customer[h],
                                   email |-> submit_email[h]])
    /\ submit_pc' = [submit_pc EXCEPT ![h] = "done"]
    /\ UNCHANGED <<customers, submit_email, submit_customer, submissions, rejected,
                   overlapped, email_unique, beside_customers>>

\* submit_support_form answers: the ticket id, or status 500 from its except
\* branch
SubmitReturns(h) ==
    /\ submit_pc[h] \in {"done", "failed"}
    /\ rejected' = IF submit_pc[h] = "failed" THEN rejected + 1 ELSE rejected
    /\ submit_pc' = [submit_pc EXCEPT ![h] = "idle"]
    /\ UNCHANGED <<customers, tickets, submit_email, submit_customer, submissions,
                   overlapped, email_unique, beside_customers>>

InitCustomers ==
    /\ TicketAside
    /\ PollInit
    /\ CallersInit
    /\ SkillsIdle
    /\ CustomersEmpty
    /\ email_unique \in BOOLEAN
    /\ PoolIdle
    /\ ImapIdle
    /\ BatchIdle
    /\ ConsumerIdle

NextCustomers ==
    \/ \E h \in SubmitHandlers, e \in Emails : CreateCustomerSelect(h, e)
    \/ \E h \in SubmitHandlers : CreateCustomerInsert(h)
    \/ \E h \in SubmitHandlers : CreateTicket(h)
    \/ \E h \in SubmitHandlers : SubmitReturns(h)

SpecCustomers == InitCustomers /\ [][NextCustomers]_vars

(***************************************************************************)
(* database/connection.py: the connection pool                             *)
(***************************************************************************)
MaxPools == 3

\* what the steps of get_pool and close_pool leave alone
beside_pool == <<pipeline_vars, poll_vars, caller_vars, skill_vars, customer_vars,
                 imap_vars, batch_vars, consumer_vars>>

\* get_pool up to its first await:  if _pool is None: await create_pool(...);
\* otherwise return _pool
GetPoolStart(c) ==
    /\ get_pc[c] = "idle"
    /\ IF pool = 0
       THEN /\ created < MaxPools
            /\ get_pc' = [get_pc EXCEPT ![c] = "creating"]
            /\ UNCHANGED <<got, handed>>
       ELSE /\ got' = [got EXCEPT ![c] = pool]
            /\ handed' = handed \cup {pool}
            /\ get_pc' = [get_pc EXCEPT ![c] = "returned"]
    /\ UNCHANGED <<pool, created, fresh, close_pc, beside_pool>>

\* create_pool returns:  _pool = <the new pool>;  return _pool
GetPoolCreated(c) ==
    /\ get_pc[c] = "creating"
    /\ created' = created + 1
    /\ fresh' = fresh + 1
    /\ pool' = created + 1
    /\ got' = [got EXCEPT ![c] = created + 1]
    /\ handed' = handed \cup {created + 1}
    /\ get_pc' = [get_pc EXCEPT ![c] = "returned"]
    /\ UNCHANGED <<close_pc, beside_pool>>

\* the caller has used the pool and may call get_pool again
PoolUsed(c) ==
    /\ get_pc[c] = "returned"
    /\ get_pc' = [get_pc EXCEPT ![c] = "idle"]
    /\ UNCHANGED <<pool, got, created, fresh, handed, close_pc, beside_pool>>

\* close_pool up to its await:  if _pool: await _pool.close()
ClosePoolStart ==
    /\ close_pc = "idle"
    /\ pool # 0
    /\ close_pc' = "closing"
    /\ UNCHANGED <<pool, get_pc, got, created, fresh, handed, beside_pool>>

\* _pool.close() returns:  _pool = None
ClosePoolEnd ==
    /\ close_pc = "closing"
    /\ pool' = 0
    /\ fresh' = 0
    /\ handed' = {}
    /\ close_pc' = "idle"
    /\ UNCHANGED <<get_pc, got, created, beside_pool>>

InitPool ==
    /\ TicketAside
    /\ PollInit
    /\ CallersInit
    /\ SkillsIdle
    /\ CustomersIdle
    /\ PoolIdle
    /\ ImapIdle
    /\ BatchIdle
    /\ ConsumerIdle

NextPool ==
    \/ \E c \in PoolCallers : GetPoolStart(c)
    \/ \E c \in PoolCallers : GetPoolCreated(c)
    \/ \E c \in PoolCallers : PoolUsed(c)
    \/ ClosePoolStart
    \/ ClosePoolEnd

SpecPool == InitPool /\ [][NextPool]_vars

(***************************************************************************)
(* channels/imap_poller.py: polling the inbox                              *)
(***************************************************************************)
MaxImapPolls == 3

\* what the steps of poll_once leave alone
beside_imap == <<pipeline_vars, poll_vars, caller_vars, skill_vars, customer_vars,
                 pool_vars, batch_vars, consumer_vars>>

\* the largest element of a non-empty set of numbers
Largest(S) == CHOOSE x \in S : \A y \in S : y <= x

\* the elements of a set of numbers in ascending order
RECURSIVE Ascending(_)
Ascending(S) ==
    IF S = {} THEN << >>
    ELSE Ascending(S \ {Largest(S)}) \o <<Largest(S)>>

\* the server's answer to  UID SEARCH UID <n>:* : the messages whose UID lies
\* between n and the largest UID of the mailbox, both included
SearchUidFrom(n, box) ==
    IF box = {} THEN {}
    ELSE {u \in box : (n <= u /\ u <= Largest(box)) \/ (Largest(box) <= u /\ u <= n)}

\* the server's answer to  UID SEARCH UNSEEN
SearchUnseen(box, flagged) == box \ flagged

\* an email is delivered to the inbox and gets the next UID
EmailArrives ==
    /\ Cardinality(mailbox) < MaxEmails
    /\ mailbox' = mailbox \cup {Cardinality(mailbox) + 1}
    /\ UNCHANGED <<seen, last_uid, state_file, imap_pc, imap_uids, imap_tickets,
                   imap_polls, beside_imap>>

\* poll_once up to its loop: _connect, _load_state, the search and
\* uids = message_data[0].split();  with no UID it returns 0 at once
PollOnceStart ==
    /\ imap_pc = "idle"
    /\ imap_polls < MaxImapPolls
    /\ imap_polls' = imap_polls + 1
    /\ \E connect_ok \in BOOLEAN :
           IF ~connect_ok
           THEN UNCHANGED <<last_uid, imap_pc, imap_uids>>
           ELSE LET loaded == IF state_file # 0 THEN state_file ELSE last_uid
                    uids == IF loaded # 0
                            THEN SearchUidFrom(loaded, mailbox)
                            ELSE SearchUnseen(mailbox, seen)
                IN  /\ last_uid' = loaded
                    /\ imap_uids' = Ascending(uids)
                    /\ imap_pc' = IF uids = {} THEN "idle" ELSE "processing"
    /\ UNCHANGED <<mailbox, seen, state_file, imap_tickets, beside_imap>>

\* what one turn of  for uid in uids  can do: process the email, mark it read
\* and move _last_uid; skip it (no data, or an empty body); lose the ticket
\* inside _process_email, which logs its exceptions; or raise at the STORE
\* after the ticket was created
EmailOutcomes == {"processed", "skipped", "ticket_failed", "store_failed"}

\* one turn of the loop of poll_once
ProcessEmail ==
    /\ imap_pc = "processing"
    /\ imap_uids # << >>
    /\ LET uid == Head(imap_uids)
       IN  \E outcome \in EmailOutcomes :
               /\ imap_tickets' =
                      IF outcome \in {"processed", "store_failed"}
                      THEN [imap_tickets EXCEPT ![uid] = @ + 1]
                      ELSE imap_tickets
               /\ seen' = IF outcome \in {"processed", "ticket_failed"}
                          THEN seen \cup {uid} ELSE seen
               /\ last_uid' = IF outcome \in {"processed", "ticket_failed"}
                              THEN uid ELSE last_uid
    /\ imap_uids' = Tail(imap_uids)
    /\ UNCHANGED <<mailbox, state_file, imap_pc, imap_polls, beside_imap>>

\* the loop is over:  self._save_state();  return processed_count.
\* _save_state logs a failure to write the file
PollOnceEnd ==
    /\ imap_pc = "processing"
    /\ imap_uids = << >>
    /\ \E save_ok \in BOOLEAN :
           state_file' = IF save_ok THEN last_uid ELSE state_file
    /\ imap_pc' = "idle"
    /\ UNCHANGED <<mailbox, seen, last_uid, imap_uids, imap_tickets, imap_polls,
                   beside_imap>>

InitImap ==
    /\ TicketAside
    /\ PollInit
    /\ CallersInit
    /\ SkillsIdle
    /\ CustomersIdle
    /\ PoolIdle
    /\ ImapIdle
    /\ BatchIdle
    /\ ConsumerIdle

NextImap ==
    \/ EmailArrives
    \/ PollOnceStart
    \/ ProcessEmail
    \/ PollOnceEnd

SpecImap == InitImap /\ [][NextImap]_vars

(***************************************************************************)
(* api/main.py: POST /agent/process-batch                                  *)
(***************************************************************************)
MaxIncoming == 2

\* what the steps of the batch endpoint leave alone
beside_batch == <<pipeline_vars, poll_vars, caller_vars, skill_vars, customer_vars,
                  pool_vars, imap_vars, consumer_vars>>

\* the rows of  tickets JOIN conversations JOIN messages  WHERE t.status =
\* 'open' AND m.direction = 'incoming'  ORDER BY t.created_at: one row per
\* incoming message of each open ticket
RECURSIVE JoinedRows(_, _, _)
JoinedRows(ts, st, msgs) ==
    IF ts = << >> THEN << >>
    ELSE (IF st[Head(ts)] = "open"
          THEN [i \in 1..msgs[Head(ts)] |-> Head(ts)]
          ELSE << >>) \o JoinedRows(Tail(ts), st, msgs)

\* tickets = await conn.fetch(...), and the results dict
BatchSelect ==
    /\ batch_pc = "idle"
    /\ batch_rows' = JoinedRows(Ascending(BatchTickets), batch_status, incoming)
    /\ open_at_start' = {t \in BatchTickets : batch_status[t] = "open"}
    /\ batch_pc' = "loop"
    /\ UNCHANGED <<batch_status, incoming, batch_runs, stale_runs, results,
                   beside_batch>>

\* how a call of process_message can end for the batch handler: it returns
\* with the ticket resolved or escalated, or it raises having written
\* 'escalated' or nothing
BatchRunEnds ==
    {[ended |-> "returned", left |-> "resolved"],
     [ended |-> "returned", left |-> "escalated"],
     [ended |-> "raised", left |-> "escalated"],
     [ended |-> "raised", left |-> "unchanged"]}

\* one turn of  for ticket in tickets:  process_message, results["processed"]
\* += 1, the read of the final status, and results["failed"] += 1 in the
\* except branch
BatchRun ==
    /\ batch_pc = "loop"
    /\ batch_rows # << >>
    /\ LET t == Head(batch_rows)
       IN  \E end \in BatchRunEnds, read_ok \in BOOLEAN :
               LET after == IF end.left = "unchanged" THEN batch_status[t] ELSE end.left
                   returned == end.ended = "returned"
               IN  /\ batch_status' = [batch_status EXCEPT ![t] = after]
                   /\ batch_runs' = [batch_runs EXCEPT ![t] = @ + 1]
                   /\ stale_runs' = IF batch_status[t] # "open"
                                    THEN stale_runs + 1 ELSE stale_runs
                   /\ results' =
                          [processed |-> results.processed + (IF returned THEN 1 ELSE 0),
                           resolved |-> results.resolved +
                               (IF returned /\ read_ok /\ after = "resolved" THEN 1 ELSE 0),
                           escalated |-> results.escalated +
                               (IF returned /\ read_ok /\ after = "escalated" THEN 1 ELSE 0),
                           failed |-> results.failed +
                               (IF ~returned \/ ~read_ok THEN 1 ELSE 0)]
    /\ batch_rows' = Tail(batch_rows)
    /\ UNCHANGED <<batch_pc, incoming, open_at_start, beside_batch>>

\* another caller of process_message (the message processor, POST
\* /agent/process/{ticket_id}) finishes a ticket while the batch is running
OtherCallerFinishes(t) ==
    /\ batch_pc = "loop"
    /\ batch_status[t] = "open"
    /\ \E left \in {"resolved", "escalated"} :
           batch_status' = [batch_status EXCEPT ![t] = left]
    /\ UNCHANGED <<batch_pc, batch_rows, incoming, open_at_start, batch_runs,
                   stale_runs, results, beside_batch>>

\* return results
BatchReturns ==
    /\ batch_pc = "loop"
    /\ batch_rows = << >>
    /\ batch_pc' = "returned"
    /\ UNCHANGED <<batch_rows, batch_status, incoming, open_at_start, batch_runs,
                   stale_runs, results, beside_batch>>

InitBatch ==
    /\ TicketAside
    /\ PollInit
    /\ CallersInit
    /\ SkillsIdle
    /\ CustomersIdle
    /\ PoolIdle
    /\ ImapIdle
    /\ ConsumerIdle
    /\ BatchNotCalled
    /\ batch_status \in [BatchTickets -> {"open", "resolved", "escalated"}]
    /\ incoming \in [BatchTickets -> 1..MaxIncoming]

NextBatch ==
    \/ BatchSelect
    \/ BatchRun
    \/ \E t \in BatchTickets : OtherCallerFinishes(t)
    \/ BatchReturns

SpecBatch == InitBatch /\ [][NextBatch]_vars

(***************************************************************************)
(* kafka/client.py: FTEKafkaConsumer.consume                               *)
(***************************************************************************)
MaxMessages == 3

\* the messages of the inbound topics
TopicMessages == 1..MaxMessages

\* what the steps of consume leave alone
beside_consumer == <<pipeline_vars, poll_vars, caller_vars, skill_vars, customer_vars,
                     pool_vars, imap_vars, batch_vars>>

\* a channel handler publishes a message and the broker appends it
MessageArrives ==
    /\ \E m \in TopicMessages :
           /\ \A i \in DOMAIN topic_log : topic_log[i] # m
           /\ topic_log' = Append(topic_log, m)
    /\ UNCHANGED <<offset, handler_pc, handler_log, consumer_connected,
                   beside_consumer>>

\* async for msg in self._consumer:  await handler(msg.topic, msg.value).
\* Without a connection consume only sleeps
HandlerStarts ==
    /\ consumer_connected
    /\ handler_pc = "idle"
    /\ offset < Len(topic_log)
    /\ offset' = offset + 1
    /\ handler_pc' = "handling"
    /\ handler_log' = Append(handler_log, [msg |-> topic_log[offset + 1], step |-> "start"])
    /\ UNCHANGED <<topic_log, consumer_connected, beside_consumer>>

\* HandlerEnds with an except branch that leaves the loop
HandlerEnds_LeavesLoop ==
    /\ handler_pc = "handling"
    /\ \E step \in {"returned", "raised"} :
           /\ handler_log' = Append(handler_log, [msg |-> topic_log[offset], step |-> step])
           /\ handler_pc' = IF step = "raised" THEN "stopped" ELSE "idle"
    /\ UNCHANGED <<topic_log, offset, consumer_connected, beside_consumer>>

\* the handler returns, or raises an Exception, which consume logs; either
\* way the loop goes on to the next message
HandlerEnds ==
    /\ handler_pc = "handling"
    /\ \E step \in {"returned", "raised"} :
           handler_log' = Append(handler_log, [msg |-> topic_log[offset], step |-> step])
    /\ handler_pc' = "idle"
    /\ UNCHANGED <<topic_log, offset, consumer_connected, beside_consumer>>

InitConsumer ==
    /\ TicketAside
    /\ PollInit
    /\ CallersInit
    /\ SkillsIdle
    /\ CustomersIdle
    /\ PoolIdle
    /\ ImapIdle
    /\ BatchIdle
    /\ ConsumerStarted
    /\ consumer_connected \in BOOLEAN

NextConsumer ==
    \/ MessageArrives
    \/ HandlerStarts
    \/ HandlerEnds

\* the event loop keeps running consume, and a handler call ends
SpecConsumer ==
    /\ InitConsumer
    /\ [][NextConsumer]_vars
    /\ WF_vars(HandlerStarts)
    /\ WF_vars(HandlerEnds)

(***************************************************************************)
(* skills/quick_answer.py, agent/formatters.py: single calls               *)
(***************************************************************************)
\* ""
Txt_empty ==
    << >>

\* "slack integration"
Txt_slack_integration ==
    <<"s","l","a","c","k"," ","i","n","t","e","g","r","a","t","i","o","n">>

\* "Webhook configuration"
Txt_webhook ==
    <<"W","e","b","h","o","o","k"," ","c","o","n","f","i","g","u","r","a","t","i","o","n">>

\* "where is my api key"
Txt_api_key ==
    <<"w","h","e","r","e"," ","i","s"," ","m","y"," ","a","p","i"," ","k","e","y">>

\* "api key for the slack integration"
Txt_api_key_integration ==
    <<"a","p","i"," ","k","e","y"," ","f","o","r"," ","t","h","e"," ","s","l","a","c","k"," ",
      "i","n","t","e","g","r","a","t","i","o","n">>

\* "hi, I need an api key for the webhook"
Txt_hi_api_webhook ==
    <<"h","i",","," ","I"," ","n","e","e","d"," ","a","n"," ","a","p","i"," ","k","e","y"," ",
      "f","o","r"," ","t","h","e"," ","w","e","b","h","o","o","k">>

\* "pricing of the api key integration"
Txt_pricing_integration ==
    <<"p","r","i","c","i","n","g"," ","o","f"," ","t","h","e"," ","a","p","i"," ","k","e","y",
      " ","i","n","t","e","g","r","a","t","i","o","n">>

\* "reintegration, then integration with the api key"
Txt_reintegration ==
    <<"r","e","i","n","t","e","g","r","a","t","i","o","n",","," ","t","h","e","n"," ","i","n",
      "t","e","g","r","a","t","i","o","n"," ","w","i","t","h"," ","t","h","e"," ","a","p","i",
      " ","k","e","y">>

\* "there is a bug"
Txt_bug ==
    <<"t","h","e","r","e"," ","i","s"," ","a"," ","b","u","g">>

\* "this is a costume"
Txt_costume ==
    <<"t","h","i","s"," ","i","s"," ","a"," ","c","o","s","t","u","m","e">>

\* "costume cost"
Txt_costume_cost ==
    <<"c","o","s","t","u","m","e"," ","c","o","s","t">>

\* "thanks for the refund"
Txt_thanks_refund ==
    <<"t","h","a","n","k","s"," ","f","o","r"," ","t","h","e"," ","r","e","f","u","n","d">>

\* "Yes"
Txt_yes ==
    <<"Y","e","s">>

\* "yes, refund me"
Txt_yes_refund ==
    <<"y","e","s",","," ","r","e","f","u","n","d"," ","m","e">>

\* "not"
Txt_not ==
    <<"n","o","t">>

\* "I want a refund"
Txt_refund ==
    <<"I"," ","w","a","n","t"," ","a"," ","r","e","f","u","n","d">>

\* "you should add slack"
Txt_you_slack ==
    <<"y","o","u"," ","s","h","o","u","l","d"," ","a","d","d"," ","s","l","a","c","k">>

\* "download csv export"
Txt_csv ==
    <<"d","o","w","n","l","o","a","d"," ","c","s","v"," ","e","x","p","o","r","t">>

\* "Hello, how can I help?"
Txt_help ==
    <<"H","e","l","l","o",","," ","h","o","w"," ","c","a","n"," ","I"," ","h","e","l","p","?">>

\* "one two three"
Txt_words ==
    <<"o","n","e"," ","t","w","o"," ","t","h","r","e","e">>

\* "  one \n two  three  "
Txt_spaced ==
    <<" "," ","o","n","e"," ","\n"," ","t","w","o"," "," ","t","h","r","e","e"," "," ">>

\* 299 characters: "abcdefg " 37 times, then "abc"
Txt_299 == Repeat(<<"a","b","c","d","e","f","g"," ">>, 37) \o <<"a","b","c">>

\* 300 characters
Txt_300 == Repeat(<<"a","b","c","d","e","f","g"," ">>, 37) \o <<"a","b","c","d">>

\* 301 characters, the last space at 296
Txt_301 == Repeat(<<"a","b","c","d","e","f","g"," ">>, 37) \o <<"a","b","c","d","e">>

\* 305 characters, a space at 300
Txt_305_spaces == Repeat(<<"a","b","c","d"," ">>, 61)

\* 305 characters and no space
Txt_305_one_word == Repeat(<<"a","b","c","d","e">>, 61)

\* 301 words
Txt_301_words == Repeat(<<"a"," ">>, 301)

\* 501 words
Txt_501_words == Repeat(<<"a"," ">>, 501)

\* the texts the functions are called with
SkillTexts ==
    {Txt_empty, Txt_slack_integration, Txt_webhook, Txt_api_key,
     Txt_api_key_integration, Txt_hi_api_webhook, Txt_pricing_integration, Txt_reintegration,
     Txt_bug, Txt_costume, Txt_costume_cost, Txt_thanks_refund,
     Txt_yes, Txt_yes_refund, Txt_not, Txt_refund,
     Txt_you_slack, Txt_csv, Txt_help, Txt_words,
     Txt_spaced, Txt_299, Txt_300, Txt_301,
     Txt_305_spaces, Txt_305_one_word, Txt_301_words, Txt_501_words}

\* the word caps truncate_to_words is called with
WordCaps == {0, 1, 2, 3, WhatsAppWordCap, WebFormWordCap, EmailWordCap}

\* intent = await classify_intent(message)
ClassifyIntent ==
    /\ skill_pc = "idle"
    /\ skill_pc' = "classify_intent"
    /\ skill_out' = classify_intent(skill_text)
    /\ UNCHANGED <<skill_text, skill_arg, pipeline_vars, poll_vars, caller_vars,
                   service_vars>>

\* format_for_channel(content, channel, ticket_id)
FormatForChannel(ch) ==
    /\ skill_pc = "idle"
    /\ skill_pc' = "format_for_channel"
    /\ skill_arg' = [skill_arg EXCEPT !.channel = ch]
    /\ skill_out' = format_for_channel(skill_text, ch, TicketId)
    /\ UNCHANGED <<skill_text, pipeline_vars, poll_vars, caller_vars,
                   service_vars>>

\* truncate_to_words(text, max_words)
TruncateToWords(max_words) ==
    /\ skill_pc = "idle"
    /\ skill_pc' = "truncate_to_words"
    /\ skill_arg' = [skill_arg EXCEPT !.max_words = max_words]
    /\ skill_out' = truncate_to_words(skill_text, max_words)
    /\ UNCHANGED <<skill_text, pipeline_vars, poll_vars, caller_vars,
                   service_vars>>

\* _generate_response(context, message, channel) of runner r, when the
\* generator returns skill_text
GenerateResponseCall(r, ch) ==
    /\ skill_pc = "idle"
    /\ r \in RunnersFor(ch)
    /\ skill_pc' = "generate_response"
    /\ skill_arg' = [skill_arg EXCEPT !.runner = r, !.channel = ch]
    /\ skill_out' = GenerateResponse(r, ch, skill_text)
    /\ UNCHANGED <<skill_text, pipeline_vars, poll_vars, caller_vars,
                   service_vars>>

InitSkills ==
    /\ TicketAside
    /\ PollInit
    /\ CallersInit
    /\ skill_pc = "idle"
    /\ skill_text \in SkillTexts
    /\ skill_arg = NoArguments
    /\ skill_out = None
    /\ ServicesIdle

NextSkills ==
    \/ ClassifyIntent
    \/ \E ch \in Channels : FormatForChannel(ch)
    \/ \E max_words \in WordCaps : TruncateToWords(max_words)
    \/ \E r \in {"agent", "whatsapp"}, ch \in Channels : GenerateResponseCall(r, ch)

SpecSkills == InitSkills /\ [][NextSkills]_vars

(***************************************************************************)
(* Properties of process_message                                           *)
(***************************************************************************)
\* the call of process_message has returned a value to its caller
Returned == pc = "returned"

\* the call of process_message has ended, by a return or by an exception
Ended == pc \in {"returned", "raised"}

\* the message contains one of the hard escalation keywords
HasHardKeyword(msg) ==
    \E k \in DOMAIN HARD_ESCALATION_KEYWORDS :
        Contains(HARD_ESCALATION_KEYWORDS[k], Lower(msg))

\* the message contains a keyword of the escalation policy, hard or human-request
HasPolicyKeyword(msg) == decide_escalation(msg, NeutralScore).should_escalate

\* the message matches the greeting pattern; the thanks pattern
IsGreeting(msg) == PatternSearch(INTENT_PATTERNS[1], msg)

IsThanks(msg) == PatternSearch(INTENT_PATTERNS[2], msg)

\* the name of the pricing intent
PricingIntent == <<"p","r","i","c","i","n","g">>

\* the escalation policy has answered should_escalate in this call
PolicyEscalates == escalation # NoDecision /\ escalation.should_escalate

\* C1: process_message never raises to its caller: whatever external
\* capability fails, at whatever step, the call ends by returning a text.
\* (Violated: the except handler's own _escalate_ticket is not guarded.)
C1_NeverRaises == pc # "raised"

\* C2: whenever a fault is caught at the boundary of process_message, the
\* ticket is 'escalated' when the call returns, its resolution note carries
\* the reason agent_error, and the returned text is the fixed fallback text.
C2_CaughtFaultEscalates ==
    (Returned /\ caught) =>
        /\ status = "escalated"
        /\ resolution_notes = EscalationNote(AgentErrorReason)
        /\ result = ErrorFallbackText(runner)

\* C2 witness: a fault was caught after the reply had been stored and the
\* ticket marked resolved, and the call returned
C2_Witness == Returned /\ caught /\ stored > 0

\* C3: when the text generator fails in a run that reached generation, the
\* call ends in the error fallback: the ticket is left 'escalated', nothing is
\* stored or sent as a normal answer, and the fallback text is returned.
\* Stated for runs in which nothing but the generator fails.
\* (Violated: _generate_response swallows the failure and its apology is
\* stored and sent as the answer of a resolved ticket.)
C3_GeneratorFailureFallsBack ==
    (Ended /\ generated = GeneratorRaises /\ faults = 1) =>
        /\ Returned
        /\ status = "escalated"
        /\ stored = 0
        /\ attempts = << >>

\* C4: for every message with a hard escalation keyword, on every channel
\* and for every sentiment score, process_message returns the escalation
\* notice and the ticket is 'escalated' when it returns.  Stated for runs in
\* which no external capability fails.
\* (Violated by WhatsAppAgentRunner, which never reaches the policy.)
C4_HardKeywordEscalates ==
    (Returned /\ HasHardKeyword(message) /\ faults = 0) =>
        /\ result = GetEscalationResponse(runner, channel)
        /\ status = "escalated"

C6_QuickAnswerEscalates ==
    (Returned /\ quick_answer # NoQuickAnswer /\ quick_answer.escalate /\ faults = 0) =>
        /\ status = "escalated"
        /\ resolution_notes = EscalationNote(QuickAnswerReason(quick_answer.intent))

\* C7: for every message classified as the pricing intent, on every channel,
\* the ticket is 'escalated' when processing finishes.  Stated for runs in
\* which no external capability fails.
\* (Violated: either runner leaves the ticket 'resolved'.)
C7_PricingEscalates ==
    (Returned /\ classify_intent(message) = PricingIntent /\ faults = 0) =>
        status = "escalated"

\* C8: for every message with no matched intent and no escalation keyword
\* whose sentiment score is at least 0.3, the text generator is invoked
\* exactly once, the ticket is not marked escalated and the text returned is
\* the generated one.  Stated for runs in which no external capability fails.
\* (Violated by WhatsAppAgentRunner: the un-awaited handle_greeting call is
\* always truthy, so the run never gets past the courtesy step.)
C8_UnmatchedNeutralIsGenerated ==
    ( /\ Returned
      /\ faults = 0
      /\ classify_intent(message) = None
      /\ ~HasPolicyKeyword(message)
      /\ sentiment_calls > 0 => score >= NegativeThreshold ) =>
        /\ generator_calls = 1
        /\ status # "escalated"
        /\ result = GenerateResponse(runner, channel, generated)

\* C9: for every message matching the greeting pattern, and likewise the
\* thanks pattern, process_message returns the fixed courtesy text, leaves
\* the ticket not escalated, and invokes neither the sentiment scorer nor
\* the escalation policy.  Stated for runs in which no external capability
\* fails.
\* (Violated: AgentRunner has no courtesy path; WhatsAppAgentRunner hands the
\* un-awaited coroutine to _send_response.)
C9_CourtesyText ==
    (Returned /\ faults = 0 /\ (IsGreeting(message) \/ IsThanks(message))) =>
        /\ result = IF IsGreeting(message) THEN handle_greeting(message)
                                           ELSE handle_thanks(message)
        /\ status # "escalated"
        /\ sentiment_calls = 0
        /\ policy_evals = 0

SendFailed == \E i \in DOMAIN attempts : ~attempts[i].ok

\* C11: every run that ends in a non-error outcome stores exactly one
\* outgoing message, leaves the ticket resolved or escalated, and makes
\* exactly one delivery handoff.  Stated for runs in which no external
\* capability fails.
\* (Violated: the escalation-notice path stores and sends nothing.)
C11_OneStoreOneHandoff ==
    (Returned /\ ~caught /\ faults = 0) =>
        /\ stored = 1
        /\ status \in {"resolved", "escalated"}
        /\ Len(attempts) = 1

\* C12: a failed send after the reply was stored does not revert the ticket:
\* the call returns the reply, the ticket is 'resolved', and the except
\* handler of process_message has not run.
C12_SendFailureKeepsResolved ==
    SendFailed =>
        /\ Returned
        /\ ~caught
        /\ stored >= 1
        /\ status = "resolved"
        /\ result = content

\* C12 witness: a call has returned after a failed send
C12_Witness == Returned /\ SendFailed /\ status = "resolved"

\* C13: at most one delivery attempt is made per processed message.
\* (Violated: GmailHandler.send_reply sends by SMTP after a failed Gmail API
\* send.)
C13_AtMostOneAttempt == Len(attempts) <= 1

\* C14: a ticket's status only moves from 'open' to 'resolved' or to
\* 'escalated'; an escalated ticket is never set to 'resolved' and a
\* resolved one never to 'escalated'.
\* (Violated: _send_response resolves the ticket a quick answer escalated.)
C14_Lifecycle ==
    [][ /\ status = "escalated" => status' = "escalated"
        /\ status = "resolved" => status' = "resolved" ]_vars

\* C15: for one ticket at most one call of process_message is in flight at
\* any time, whatever the interleaving of the message processor and the two
\* API endpoints.
\* (Violated: no caller checks or locks the ticket.)
C15_AtMostOneInFlight ==
    Cardinality({c \in Callers : caller_pc[c] = "running"}) <= 1

\* C16: over any number of polls, an incoming WhatsApp message creates at
\* most one ticket and is published to the inbound topic at most once.
\* (Violated: every poll reads every incoming row again.)
C16_ConsumedOnce ==
    \A m \in MessageIds : tickets_created[m] <= 1 /\ published[m] <= 1

\* C17: delivery is the last side effect of a run: a send happens only after
\* the outgoing message is stored and the ticket status updated, and no store
\* write of the run follows a send.
\* (Violated: WhatsAppHandler.send_response stores a message after sending.)
C17_DeliveryLast ==
    \A i \in DOMAIN events :
        events[i] = "send" =>
            /\ \E a \in 1..(i - 1) : events[a] = "store_message"
            /\ \E b \in 1..(i - 1) : events[b] = "mark_resolved"
            /\ \A j \in (i + 1)..Len(events) : events[j] = "send"

\* the call has ended the way the previous call on the ticket ended, with the
\* same runner, the same policy decision and the same store writes
SameAsPrevious ==
    /\ prev # NoPrevious
    /\ prev.pc \in {"returned", "raised"}
    /\ Ended
    /\ prev.pc = pc
    /\ prev.runner = runner
    /\ prev.caught = caught
    /\ prev.escalation = escalation
    /\ prev.writes = Writes(events)

\* C18: a second run of process_message for the same ticket and message with
\* the same capability outcomes leaves the ticket's status and resolution
\* note as the first run left them.
C18_RerunIdempotent ==
    SameAsPrevious =>
        /\ status = prev.status
        /\ resolution_notes = prev.resolution_notes

\* C18 witness: two runs in a row escalated the ticket and then resolved it
C18_Witness ==
    /\ SameAsPrevious
    /\ Returned
    /\ Writes(events) = <<"mark_escalated", "store_message", "mark_resolved">>

\* the hard keywords found in the message as substrings, by list position
HardKeywordsIn(msg) ==
    {k \in DOMAIN HARD_ESCALATION_KEYWORDS :
        Contains(HARD_ESCALATION_KEYWORDS[k], Lower(msg))}

\* the message has a human-request keyword as a whole word
HasHumanRequest(msg) ==
    \E k \in DOMAIN HUMAN_REQUEST_KEYWORDS :
        WholeWordSearch(HUMAN_REQUEST_KEYWORDS[k], Lower(msg))

\* both, tabulated over the corpus
HardKeywordsOf == [m \in Messages |-> HardKeywordsIn(m)]

HumanRequestOf == [m \in Messages |-> HasHumanRequest(m)]

\* the least element of a non-empty set of numbers
Least(S) == CHOOSE k \in S : \A j \in S : k <= j

\* C19: decide_escalation takes the first rule that matches: a hard keyword
\* anywhere in the text gives (escalate, immediate, keyword_detected:<first
\* listed keyword found>); otherwise a whole-word human-request keyword gives
\* (escalate, high, customer_requested_human) for every score.
C19_KeywordRulesFirst ==
    escalation # NoDecision =>
        IF HardKeywordsOf[message] # {}
        THEN /\ escalation.should_escalate
             /\ escalation.urgency = "immediate"
             /\ escalation.reason =
                    <<"k","e","y","w","o","r","d","_","d","e","t","e","c","t","e","d",":">>
                        \o HARD_ESCALATION_KEYWORDS[Least(HardKeywordsOf[message])]
        ELSE HumanRequestOf[message] =>
             /\ escalation.should_escalate
             /\ escalation.urgency = "high"
             /\ escalation.reason =
                    <<"c","u","s","t","o","m","e","r","_","r","e","q","u","e","s","t","e","d",
                      "_","h","u","m","a","n">>

\* C19 witness: a human request scored below 0.2 was decided
C19_Witness ==
    /\ escalation # NoDecision
    /\ HardKeywordsOf[message] = {}
    /\ HumanRequestOf[message]
    /\ score = 10

\* C20: without a hard or human-request keyword the decision depends on the
\* score alone: below 0.2 (escalate, immediate, hostile_sentiment); from 0.2
\* up to but not including 0.3 (escalate, high, negative_sentiment); from 0.3
\* on (no escalation, normal, empty reason).
C20_SentimentThresholds ==
    (escalation # NoDecision /\ HardKeywordsOf[message] = {}
        /\ ~HumanRequestOf[message]) =>
        escalation =
            IF score < 20
            THEN [should_escalate |-> TRUE, urgency |-> "immediate",
                  reason |-> <<"h","o","s","t","i","l","e","_","s","e","n","t","i","m","e","n","t">>]
            ELSE IF score < 30
            THEN [should_escalate |-> TRUE, urgency |-> "high",
                  reason |-> <<"n","e","g","a","t","i","v","e","_","s","e","n","t","i","m","e","n","t">>]
            ELSE [should_escalate |-> FALSE, urgency |-> "normal", reason |-> << >>]

\* C20 witness: a message without keywords scored exactly 0.2 was decided
C20_Witness ==
    /\ escalation # NoDecision
    /\ HardKeywordsOf[message] = {}
    /\ ~HumanRequestOf[message]
    /\ score = 20
    /\ escalation.urgency = "high"

\* the message has no escalation keyword, hard or human-request
NoEscalationKeyword == HardKeywordsOf[message] = {} /\ ~HumanRequestOf[message]

\* C21: a failure of the sentiment scorer does not leave analyze_sentiment:
\* the step after the scorer call is always the escalation decision, with the
\* score 0.5 when the scorer failed; and for a message with no escalation
\* keyword that score never escalates, the run goes on to build the context
\* for the generation.
C21_ScorerFailureIsNeutral ==
    [][ /\ pc = "sentiment" =>
              /\ pc' = "decide"
              /\ (faults' # faults => score' = NeutralScore)
        /\ (pc = "decide" /\ score = NeutralScore /\ NoEscalationKeyword) =>
              /\ ~escalation'.should_escalate
              /\ pc' = "context"
      ]_vars

\* the scorer failed, nothing else did, and the reply has been generated
C21_Witness ==
    /\ score = NeutralScore
    /\ sentiment_calls = 1
    /\ faults = 1
    /\ NoEscalationKeyword
    /\ generator_calls = 1
    /\ generated # GeneratorRaises
    /\ pc = "send_fetch"

(***************************************************************************)
(* Properties of classify_intent                                           *)
(***************************************************************************)
\* the call made is classify_intent(skill_text)
Classified == skill_pc = "classify_intent"

\* the intent of the first structural pattern the text matches, None when it
\* matches none
StructuralMatch(text) ==
    LET hits == {k \in DOMAIN INTENT_PATTERNS : PatternSearch(INTENT_PATTERNS[k], text)}
    IN  IF hits = {} THEN None ELSE INTENT_PATTERNS[Least(hits)].intent

\* some keyword of the intent is a substring of the text
ContainsKeywordOf(intent, text) ==
    \E k \in DOMAIN QUICK_ANSWERS[intent].keywords :
        Contains(Lower(QUICK_ANSWERS[intent].keywords[k]), Lower(text))

\* some keyword of the intent passes the keyword test of classify_intent
IntentAccepted(intent, text) ==
    \E k \in DOMAIN QUICK_ANSWERS[intent].keywords :
        KeywordMatches(QUICK_ANSWERS[intent].keywords[k], Lower(text))

\* the intents ranked before integration: reset_password, account_setup,
\* refund, pricing
RankedBeforeIntegration ==
    {<<"r","e","s","e","t","_","p","a","s","s","w","o","r","d">>,
     <<"a","c","c","o","u","n","t","_","s","e","t","u","p">>,
     <<"r","e","f","u","n","d">>,
     <<"p","r","i","c","i","n","g">>}

IntegrationIntent == <<"i","n","t","e","g","r","a","t","i","o","n">>

ApiKeyIntent == <<"a","p","i","_","k","e","y">>

SomeIntentAccepted(text) ==
    \E k \in DOMAIN priority_order : IntentAccepted(priority_order[k], text)

\* C23: the structural patterns come before every keyword intent: a text that
\* matches a structural pattern is classified as the first such pattern's
\* intent whatever keywords it contains, and a keyword intent (or none) is
\* the result only when no structural pattern matches.
C23_StructuralFirst ==
    Classified =>
        IF StructuralMatch(skill_text) # None
        THEN skill_out = StructuralMatch(skill_text)
        ELSE skill_out \notin StructuralIntents

\* a text that matches a structural pattern and has an accepted keyword of a
\* keyword intent has been classified
C23_Witness ==
    /\ Classified
    /\ StructuralMatch(skill_text) # None
    /\ SomeIntentAccepted(skill_text)
    /\ skill_out \in StructuralIntents

\* the keyword occurs somewhere in the text with a non-alphanumeric character
\* or a string edge on both sides
OccursAsWord(keyword, text) ==
    LET kw == Lower(keyword)
        t == Lower(text)
    IN  \E i \in Occurrences(kw, t) :
            /\ (i = 1 \/ ~IsAlnum(t[i - 1]))
            /\ (i + Len(kw) - 1 = Len(t) \/ ~IsAlnum(t[i + Len(kw)]))

\* the positions in priority_order of the intents with such a keyword
IntentsOccurring(text) ==
    {k \in DOMAIN priority_order :
        \E j \in DOMAIN QUICK_ANSWERS[priority_order[k]].keywords :
            OccursAsWord(QUICK_ANSWERS[priority_order[k]].keywords[j], text)}

\* C24: when no structural pattern matches, the result is the first intent
\* of the priority order with a keyword that occurs in the text, at any
\* occurrence, between non-alphanumeric characters or string edges, and none
\* when no intent has one.
\* (Violated: only the first occurrence of a keyword is examined, and the
\* keyword 'bug' never passes the length gate.)
C24_FirstIntentWithWholeKeyword ==
    (Classified /\ StructuralMatch(skill_text) = None) =>
        skill_out = IF IntentsOccurring(skill_text) = {} THEN None
                    ELSE priority_order[Least(IntentsOccurring(skill_text))]

(***************************************************************************)
(* Properties of the formatters                                            *)
(***************************************************************************)
\* the call made is format_for_channel(skill_text, "whatsapp", ticket_id)
FormattedForWhatsApp ==
    skill_pc = "format_for_channel" /\ skill_arg.channel = "whatsapp"

\* C25: the WhatsApp formatting returns a text of at most 300 characters
\* unchanged, and formatting that output again changes nothing.
C25_ShortTextUnchanged ==
    (FormattedForWhatsApp /\ Len(skill_text) <= 300) =>
        /\ skill_out = skill_text
        /\ format_for_channel(skill_out, "whatsapp", TicketId) = skill_out

\* a text of exactly 300 characters has been formatted
C25_Witness ==
    /\ FormattedForWhatsApp
    /\ Len(skill_text) = 300
    /\ skill_out = skill_text

Ellipsis == <<".", ".", ".">>

\* s ends with the ellipsis
EndsWithEllipsis(s) ==
    Len(s) >= Len(Ellipsis) /\ SubSeq(s, Len(s) - Len(Ellipsis) + 1, Len(s)) = Ellipsis

\* s without its last three characters
BeforeEllipsis(s) == SubSeq(s, 1, Len(s) - Len(Ellipsis))

\* stem is a prefix of text that ends where a word of text ends
WholeWordsOf(stem, text) ==
    /\ Len(stem) <= Len(text)
    /\ stem = SubSeq(text, 1, Len(stem))
    /\ (stem = << >> \/ ~IsSpace(stem[Len(stem)]))
    /\ (Len(stem) = Len(text) \/ IsSpace(text[Len(stem) + 1]))

\* C26: for a content longer than 300 characters the WhatsApp formatting
\* returns at most 300 characters: whole words of the content, cut at the
\* last word boundary before the limit, followed by the ellipsis.
\* (Violated: the ellipsis is added after the cut at 300, and a text with no
\* space before the limit is cut mid-word.)
C26_LongTextCutAtWord ==
    (FormattedForWhatsApp /\ Len(skill_text) > 300) =>
        /\ Len(skill_out) <= 300
        /\ EndsWithEllipsis(skill_out)
        /\ WholeWordsOf(BeforeEllipsis(skill_out), skill_text)

\* the call made is truncate_to_words(skill_text, skill_arg.max_words)
Truncated == skill_pc = "truncate_to_words"

\* C28 as stated: a text of at most N words is returned unchanged; otherwise
\* the output split on whitespace is the first N words of the text, each
\* unchanged, followed by the ellipsis as a token of its own.
\* (Violated: the ellipsis is appended to the last word without a space.)
C28_TruncationLaw ==
    Truncated =>
        LET words == Split(skill_text)
            N == skill_arg.max_words
        IN  IF Len(words) <= N THEN skill_out = skill_text
            ELSE Split(skill_out) = SubSeq(words, 1, N) \o <<Ellipsis>>

\* C28, amended: a text of at most N words is returned unchanged; otherwise
\* the output split on whitespace has at most N+1 tokens: for N >= 1 the
\* first N-1 words of the text unchanged and then the Nth word with the
\* ellipsis appended to it, for N = 0 the ellipsis alone; and the words of
\* the output are separated by single spaces.
C28_TruncationLaw_Amended ==
    Truncated =>
        LET words == Split(skill_text)
            N == skill_arg.max_words
            tokens == Split(skill_out)
        IN  IF Len(words) <= N THEN skill_out = skill_text
            ELSE /\ Len(tokens) <= N + 1
                 /\ IF N = 0 THEN tokens = <<Ellipsis>>
                    ELSE /\ Len(tokens) = N
                         /\ SubSeq(tokens, 1, N - 1) = SubSeq(words, 1, N - 1)
                         /\ tokens[N] = words[N] \o Ellipsis
                 /\ skill_out = Join(<<" ">>, tokens)

\* a text of more than N words, N at least 2, has been truncated
C28_Witness ==
    /\ Truncated
    /\ skill_arg.max_words >= 2
    /\ Len(Split(skill_text)) > skill_arg.max_words
    /\ skill_out # skill_text

\* the call made is AgentRunner._generate_response for the channel, with
\* skill_text as the generator's answer
Generated(ch) ==
    /\ skill_pc = "generate_response"
    /\ skill_arg.runner = "agent"
    /\ skill_arg.channel = ch

\* C29: whatever the generator returns, the reply of the generation step has
\* at most 500 words on the email channel and at most 300 words on the
\* web_form channel.
C29_WordCapEnforced ==
    /\ Generated("email") => Len(Split(skill_out)) <= 500
    /\ Generated("web_form") => Len(Split(skill_out)) <= 300

\* the generator answered with more than 500 words on the email channel
C29_Witness ==
    /\ Generated("email")
    /\ Len(Split(skill_text)) > 500
    /\ Len(Split(skill_out)) = 500

(***************************************************************************)
(* Properties of the delivery                                              *)
(***************************************************************************)
\* the reply of this call is a generated text of more than 300 characters
LongGeneratedReply ==
    /\ generator_calls = 1
    /\ generated # None
    /\ generated # GeneratorRaises
    /\ Len(Strip(generated)) > 300

\* C27: on the WhatsApp channel, when the generated text is longer than 300
\* characters, the text handed to the WhatsApp transport has at most 300
\* characters and is the generated text cut at a word boundary, followed by
\* the ellipsis.
\* (Violated: the transport is given the first 300 characters of the
\* unformatted reply.)
C27_DeliveredTextCutAtWord ==
    \A i \in DOMAIN attempts :
        (attempts[i].transport = "whatsapp_bridge" /\ LongGeneratedReply) =>
            /\ Len(attempts[i].text) <= 300
            /\ EndsWithEllipsis(attempts[i].text)
            /\ WholeWordsOf(BeforeEllipsis(attempts[i].text), Strip(generated))

(***************************************************************************)
(* Properties of the message processor                                     *)
(***************************************************************************)
\* the step hands _handle_message a payload with a required field missing or
\* empty
RejectedStep == inbound' = inbound - 1 /\ ~RequiredFields(handled')

\* C30: a message with an empty or missing ticket id, customer id or text is
\* rejected before the pipeline is entered: the message processor calls no
\* runner, writes nothing to the store, changes no ticket and publishes no
\* metrics or escalation event for it.
C30_InvalidRejected ==
    [][RejectedStep =>
           /\ caller_pc'["processor"] = "idle"
           /\ UNCHANGED <<runner_calls, produced, ticket_status, store>>]_vars

\* an event whose text is empty has been taken from the topic and dropped
C30_Witness ==
    /\ inbound = 0
    /\ handled # NoPayload
    /\ handled.message = << >>
    /\ Truthy(handled.ticket_id)
    /\ handled.ticket_id # Absent
    /\ caller_pc["processor"] = "idle"
    /\ runner_calls = 0

(***************************************************************************)
(* Properties of event publishing                                          *)
(***************************************************************************)
\* the step is the end of a call of _handle_message that ran the pipeline
HandlerEndStep == caller_pc["processor"] = "running" /\ caller_pc'["processor"] = "idle"

\* C31: a failure of event publishing (producer not connected, or send
\* raising) never affects the pipeline outcome: no publish call raises, and
\* the part of _handle_message that publishes leaves the ticket's status, its
\* resolution note and the stored replies as process_message left them.
C31_PublishFailureHarmless ==
    /\ [](\A i \in DOMAIN produced : ~produced[i].raised)
    /\ [][HandlerEndStep => UNCHANGED store]_vars

\* C31 witness: the reply was stored and the ticket resolved, the metrics
\* event could not be sent, and _handle_message returned
C31_Witness ==
    /\ handler_end = "returned"
    /\ status = "resolved"
    /\ stored > 0
    /\ produced # << >>
    /\ produced[1].topic = "metrics"
    /\ produced[1].outcome \in {"failed", "skipped"}

(***************************************************************************)
(* Properties of the message processor's handler                           *)
(***************************************************************************)
\* _handle_message has ended for an event that has all its required fields
HandledValid == handler_end # "none" /\ RequiredFields(handled)

\* the publish calls on a topic that reached the broker
SentTo(topic) ==
    {i \in DOMAIN produced : produced[i].topic = topic /\ produced[i].outcome = "sent"}

\* the publish calls on a topic, whatever became of them
CallsTo(topic) == {i \in DOMAIN produced : produced[i].topic = topic}

\* C33: no message is silently dropped by the message processor: for every
\* message with ticket id, customer id and non-empty text, when
\* _handle_message returns either the ticket is no longer 'open' or an event
\* carrying the message was published to the dead-letter topic, and
\* _handle_message itself never raises.
\* (Violated: the dead-letter publish is skipped or fails without a trace on
\* the topic while the ticket is still 'open'.)
C33_NoSilentDrop ==
    /\ handler_end # "raised"
    /\ HandledValid => (status # "open" \/ SentTo("dlq") # {})

\* the run of this event decided to escalate the ticket: by the policy, by a
\* quick answer with the escalate flag, or by the error fallback
DecidedToEscalate ==
    \/ PolicyEscalates
    \/ (quick_answer # NoQuickAnswer /\ quick_answer.escalate)
    \/ caught

\* C34: whenever a pipeline run started by the message processor decides to
\* escalate a ticket (by the escalation policy, by a quick answer with the
\* escalate flag, or by the error fallback), exactly one event for that
\* ticket is published to the escalations topic after the run, and no
\* escalation event is published for a ticket that was not escalated.
\* Stated for the publish calls, whether or not the broker took the event.
\* (Violated: the quick answer's escalation is overwritten by 'resolved'
\* before the handler reads the status.)
C34_EscalationPublishedOnce ==
    HandledValid =>
        /\ DecidedToEscalate => Cardinality(CallsTo("escalations")) = 1
        /\ status # "escalated" => CallsTo("escalations") = {}

(***************************************************************************)
(* Properties of the customers table                                       *)
(***************************************************************************)
\* the submissions that have created their ticket
TicketsOf(e) == {t \in DOMAIN tickets : tickets[t].email = e}

\* C32: resolve-or-create by email: after any sequence of web-form
\* submissions, one after the other, there is exactly one customer record per
\* distinct email, and each submission creates its own ticket linked to that
\* customer; no submission is rejected.
C32_OneCustomerPerEmail ==
    ~overlapped =>
        /\ rejected = 0
        /\ \A h \in SubmitHandlers : submit_pc[h] # "failed"
        /\ Len(tickets) = submissions - Cardinality({h \in SubmitHandlers : InFlight(h)})
        /\ \A e \in Emails :
               /\ Cardinality(RowsWith(e)) <= 1
               /\ \A t \in TicketsOf(e) : RowsWith(e) = {tickets[t].customer_id}

\* C32 witness: two submissions with the same email, one after the other, have
\* given one customer and two tickets
C32_Witness ==
    /\ ~overlapped
    /\ Len(customers) = 1
    /\ Len(tickets) = 2
    /\ tickets[1].email = tickets[2].email
    /\ tickets[1].customer_id = tickets[2].customer_id

\* C35: under any interleaving of concurrent create_customer calls carrying
\* the same previously unknown email, at most one customer record with that
\* email exists afterwards and all calls return the same customer id.
\* (Violated: the SELECT and the INSERT of create_customer are two statements
\* with nothing between them that excludes another call.)
C35_ConcurrentResolveOnce ==
    /\ rejected = 0
    /\ \A h \in SubmitHandlers : submit_pc[h] # "failed"
    /\ \A e \in Emails :
           /\ Cardinality(RowsWith(e)) <= 1
           /\ \A t, u \in TicketsOf(e) : tickets[t].customer_id = tickets[u].customer_id

(***************************************************************************)
(* Properties of the connection pool                                       *)
(***************************************************************************)
\* C36: the connection pool is a process-wide singleton: under any
\* interleaving of concurrent get_pool calls (including several first calls
\* before the pool exists) and close_pool calls, at most one pool is created
\* between two closes and every get_pool call returns that same pool.
\* (Violated: get_pool tests _pool, awaits create_pool and only then assigns.)
C36_PoolSingleton ==
    /\ fresh <= 1
    /\ Cardinality(handed) <= 1

(***************************************************************************)
(* Properties of the IMAP poller                                           *)
(***************************************************************************)
\* C37: over any sequence of poll_once calls of the IMAP poller, each email
\* (UID) is processed at most once: an email whose ticket was created in an
\* earlier poll is not fetched and processed again in a later poll, and the
\* saved last UID never decreases.
\* (Violated: the search  UID <last>:*  includes the email with the last UID.)
C37_EmailProcessedOnce ==
    /\ [](\A u \in Uids : imap_tickets[u] <= 1)
    /\ [][state_file' >= state_file]_vars

(***************************************************************************)
(* Properties of the batch endpoint                                        *)
(***************************************************************************)
\* the calls of process_message the batch handler has made
BatchRunsAttempted == batch_runs[1] + batch_runs[2]

\* C38: one invocation of POST /agent/process-batch runs the pipeline at most
\* once per ticket that was 'open' when the batch started, also when the
\* ticket's conversation holds several incoming messages, and never runs the
\* pipeline on a ticket that is no longer 'open' at the moment its turn comes;
\* processed + failed equals the number of pipeline runs attempted.
\* (Violated: the SELECT returns one row per incoming message and the loop
\* does not look at the status again.)
C38_BatchOncePerOpenTicket ==
    /\ \A t \in BatchTickets :
           /\ batch_runs[t] <= 1
           /\ batch_runs[t] > 0 => t \in open_at_start
    /\ stale_runs = 0
    /\ results.processed + results.failed = BatchRunsAttempted

(***************************************************************************)
(* Properties of the consumer loop                                         *)
(***************************************************************************)
\* the handler call for the i-th message of the topic has started
Started(i) ==
    /\ i <= Len(topic_log)
    /\ \E j \in DOMAIN handler_log :
           handler_log[j] = [msg |-> topic_log[i], step |-> "start"]

\* the handler log is a sequence of calls, each started and ended before the
\* next starts, on the messages of the topic in their order
OneAtATimeInOrder ==
    \A j \in DOMAIN handler_log :
        IF j % 2 = 1
        THEN handler_log[j] = [msg |-> topic_log[(j + 1) \div 2], step |-> "start"]
        ELSE /\ handler_log[j].msg = handler_log[j - 1].msg
             /\ handler_log[j].step \in {"returned", "raised"}

\* C39: FTEKafkaConsumer.consume handles messages strictly one at a time in
\* arrival order (the handler for a message starts only after the handler for
\* the previous one has returned or raised), and a handler exception on one
\* message does not stop consumption: every later message is still passed to
\* the handler.  Stated for a connected consumer.
C39_OneAtATimeAndKeepsGoing ==
    /\ []OneAtATimeInOrder
    /\ \A i \in TopicMessages :
           (consumer_connected /\ Len(topic_log) >= i) ~> Started(i)

\* C39 witness: the handler raised on one message and was called for the next
C39_Witness ==
    /\ Len(handler_log) >= 3
    /\ handler_log[2].step = "raised"
    /\ handler_log[3].step = "start"
    /\ handler_log[3].msg # handler_log[1].msg

====
